---- MODULE Spec2Model ----
(***************************************************************************)
(* Model of perun's versioned index store (src/perun/logic/index.py).      *)
(*                                                                         *)
(* The index file is a sequence of bytes (0..255).  Strings are sequences  *)
(* of ASCII codes, so that the binary codec (entry write_to / read_from)   *)
(* is modelled byte by byte and not as the identity.                       *)
(***************************************************************************)
EXTENDS Integers, Sequences, FiniteSets, TLC

(***************************************************************************)
(* Program constants                                                       *)
(***************************************************************************)
INDEX_ENTRIES_START_OFFSET == 12
INDEX_NUMBER_OF_ENTRIES_OFFSET == 8
INDEX_MAGIC_PREFIX == <<112, 105, 100, 120>>
INDEX_VERSION == 2
\* IndexVersion.SlowLorris / IndexVersion.FastSloth
SlowLorris == 1
FastSloth == 2
\* the literal 24 of the loop condition of walk_index
WALK_MIN_REMAINING == 24
\* number of raw bytes of a stored checksum
CHECKSUM_BYTES == 20

(***************************************************************************)
(* Bounds of the model                                                     *)
(***************************************************************************)
\* a mutator is not started on a file that declares this many records
MaxEntries == 3
\* longest list handed to write_list_of_entries
MaxList == 2
\* longest key collection handed to remove_from_index
MaxKeys == 2

(***************************************************************************)
(* Byte helpers                                                            *)
(***************************************************************************)
\* the four little-endian bytes of u, 0 <= u < 2^31
Bytes4(u) == << u % 256, (u \div 256) % 256, (u \div 65536) % 256, (u \div 16777216) % 256 >>

\* struct.pack("i", n) / struct.pack("<I", n): four bytes, little endian, a negative
\* n in two's complement
pack_i(n) ==
    IF n >= 0 THEN Bytes4(n)
    ELSE [i \in 1..4 |-> 255 - Bytes4(-n - 1)[i]]

\* struct.unpack("i", b): signed 32 bit value of four bytes
unpack_i(b) ==
    IF b[4] < 128 THEN b[1] + 256 * b[2] + 65536 * b[3] + 16777216 * b[4]
    ELSE -((255 - b[1]) + 256 * (255 - b[2]) + 65536 * (255 - b[3])
            + 16777216 * (255 - b[4])) - 1

\* handle.read(n) at position pos (0-based): at most n bytes, fewer at EOF
read(f, pos, n) ==
    IF pos >= Len(f) THEN << >>
    ELSE SubSeq(f, pos + 1, IF pos + n > Len(f) THEN Len(f) ELSE pos + n)

\* handle.seek(pos); handle.write(data), 0 <= pos <= Len(f): overwrite in place,
\* extend at EOF
write_at(f, pos, data) ==
    SubSeq(f, 1, pos) \o data \o SubSeq(f, pos + Len(data) + 1, Len(f))

\* handle.truncate() at position pos
truncate(f, pos) == IF pos < Len(f) THEN SubSeq(f, 1, pos) ELSE f

\* store.read_int_from_handle: a 4-byte integer, an error on a short read
read_int_from_handle(f, pos) ==
    IF Len(f) < pos + 4 THEN [ok |-> FALSE, val |-> 0, pos |-> pos]
    ELSE [ok |-> TRUE, val |-> unpack_i(read(f, pos, 4)), pos |-> pos + 4]

\* Python's comparison of two str values (lexicographic by code point)
RECURSIVE StrLess(_, _)
StrLess(s, t) ==
    IF t = << >> THEN FALSE
    ELSE IF s = << >> THEN TRUE
    ELSE IF s[1] # t[1] THEN s[1] < t[1]
    ELSE StrLess(Tail(s), Tail(t))

(***************************************************************************)
(* Hexadecimal conversion of the checksum                                  *)
(***************************************************************************)
HexDigit(n) == IF n < 10 THEN 48 + n ELSE 87 + n
HexVal(c) == IF c >= 97 THEN c - 87 ELSE IF c >= 65 THEN c - 55 ELSE c - 48
IsHexChar(c) == (c >= 48 /\ c <= 57) \/ (c >= 97 /\ c <= 102) \/ (c >= 65 /\ c <= 70)

\* bytearray.fromhex(checksum)
fromhex(s) == [i \in 1..(Len(s) \div 2) |-> 16 * HexVal(s[2 * i - 1]) + HexVal(s[2 * i])]

\* binascii.hexlify(bytes).decode("utf-8")
hexlify(b) ==
    [i \in 1..(2 * Len(b)) |->
        IF i % 2 = 1 THEN HexDigit(b[(i + 1) \div 2] \div 16)
        ELSE HexDigit(b[i \div 2] % 16)]

\* store.is_sha1: the key has the shape of a checksum
is_sha1(s) == Len(s) = 2 * CHECKSUM_BYTES /\ \A i \in 1..Len(s) : IsHexChar(s[i])

(***************************************************************************)
(* Timestamps: the time of an entry is a string, stored as 4 bytes         *)
(***************************************************************************)
TIME_STR_LEN == 10

RECURSIVE DecValue(_)
DecValue(s) == IF s = << >> THEN 0 ELSE 10 * DecValue(SubSeq(s, 1, Len(s) - 1)) + (s[Len(s)] - 48)

RECURSIVE Pow10(_)
Pow10(k) == IF k = 0 THEN 1 ELSE 10 * Pow10(k - 1)

\* timestamps.str_to_timestamp
str_to_timestamp(s) == DecValue(s)

\* timestamps.timestamp_to_str
timestamp_to_str(n) == [i \in 1..TIME_STR_LEN |-> 48 + ((n \div Pow10(TIME_STR_LEN - i)) % 10)]

\* timestamps.write_timestamp
write_timestamp(ts) == pack_i(ts)

\* struct.unpack("<I", b): unsigned value of four bytes
unpack_I(b) == b[1] + 256 * b[2] + 65536 * b[3] + 16777216 * b[4]

\* timestamps.read_timestamp_from_file (unsigned)
read_timestamp_from_file(f, pos) ==
    IF Len(f) < pos + 4 THEN [ok |-> FALSE, val |-> 0, pos |-> pos]
    ELSE [ok |-> TRUE, val |-> unpack_I(read(f, pos, 4)), pos |-> pos + 4]

(***************************************************************************)
(* Length-prefixed strings and lists (perun.logic.store)                   *)
(***************************************************************************)
\* store.write_string_to_handle
write_string_to_handle(s) == pack_i(Len(s)) \o s

\* store.read_string_from_handle, after its length n was read
read_string_of_length(f, pos, n) ==
    IF ~n.ok \/ n.val < 0 \/ Len(f) < n.pos + n.val
    THEN [ok |-> FALSE, val |-> << >>, pos |-> pos]
    ELSE [ok |-> TRUE, val |-> read(f, n.pos, n.val), pos |-> n.pos + n.val]

\* store.read_string_from_handle
read_string_from_handle(f, pos) == read_string_of_length(f, pos, read_int_from_handle(f, pos))

RECURSIVE write_strings(_)
write_strings(l) == IF l = << >> THEN << >> ELSE write_string_to_handle(Head(l)) \o write_strings(Tail(l))

\* store.write_list_to_handle: the count, then that many strings
write_list_to_handle(l) == pack_i(Len(l)) \o write_strings(l)

\* k strings read one after the other; s is the string read at pos
RECURSIVE read_strings(_, _, _, _)
read_strings_after(f, pos, k, acc, s) ==
    IF ~s.ok THEN [ok |-> FALSE, val |-> acc, pos |-> pos]
    ELSE read_strings(f, s.pos, k - 1, Append(acc, s.val))

read_strings(f, pos, k, acc) ==
    IF k = 0 THEN [ok |-> TRUE, val |-> acc, pos |-> pos]
    ELSE read_strings_after(f, pos, k, acc, read_string_from_handle(f, pos))

\* store.read_list_from_handle, after its length n was read
read_list_of_length(f, pos, n) ==
    IF ~n.ok \/ n.val < 0 THEN [ok |-> FALSE, val |-> << >>, pos |-> pos]
    ELSE read_strings(f, n.pos, n.val, << >>)

\* store.read_list_from_handle
read_list_from_handle(f, pos) == read_list_of_length(f, pos, read_int_from_handle(f, pos))

\* the path: store.read_char_from_handle until the NUL byte
RECURSIVE read_path(_, _, _)
read_path(f, pos, acc) ==
    IF pos >= Len(f) THEN [ok |-> FALSE, val |-> acc, pos |-> pos]
    ELSE IF f[pos + 1] = 0 THEN [ok |-> TRUE, val |-> acc, pos |-> pos + 1]
    ELSE read_path(f, pos + 1, Append(acc, f[pos + 1]))

(***************************************************************************)
(* The content-addressed object store (external collaborator)              *)
(***************************************************************************)
\* the strings of the model
PathA == <<97>>
PathB == <<98>>
\* 1699946768 = 0x65532110 and its successor
Time1 == <<49, 54, 57, 57, 57, 52, 54, 55, 54, 56>>
Time2 == <<49, 54, 57, 57, 57, 52, 54, 55, 54, 57>>
Checksum1 == [i \in 1..(2 * CHECKSUM_BYTES) |-> 49]
Checksum2 == [i \in 1..(2 * CHECKSUM_BYTES) |-> IF i % 2 = 1 THEN 50 ELSE 97]
\* a checksum and a path that are never registered
ChecksumNone == [i \in 1..(2 * CHECKSUM_BYTES) |-> 102]
PathNone == <<122>>
\* the "??" of a basic entry
Unknown == <<63, 63>>

Profile1 ==
    [header |-> [type |-> <<116>>, cmd |-> <<99>>, workload |-> <<119>>],
     collector_info |-> [name |-> <<107>>],
     postprocessors |-> << >>]
\* a profile whose header has no workload
Profile2 ==
    [header |-> [type |-> <<109>>, cmd |-> <<99>>],
     collector_info |-> [name |-> <<107>>],
     postprocessors |-> << [name |-> <<112>>] >>]

\* store.split_object_name + store.load_profile_from_file
load_profile_from_file(checksum) ==
    IF checksum = Checksum1 THEN [ok |-> TRUE, val |-> Profile1]
    ELSE IF checksum = Checksum2 THEN [ok |-> TRUE, val |-> Profile2]
    ELSE [ok |-> FALSE, val |-> Profile1]

(***************************************************************************)
(* Index entries                                                           *)
(***************************************************************************)
BasicIndexEntry(time, checksum, path, offset) ==
    [cls |-> SlowLorris, time |-> time, checksum |-> checksum, path |-> path,
     offset |-> offset, type |-> Unknown, cmd |-> Unknown, workload |-> Unknown,
     collector |-> Unknown, postprocessors |-> << >>]

ExtendedIndexEntry(time, checksum, path, offset, profile) ==
    [cls |-> FastSloth, time |-> time, checksum |-> checksum, path |-> path,
     offset |-> offset,
     type |-> profile.header.type,
     cmd |-> profile.header.cmd,
     workload |-> IF "workload" \in DOMAIN profile.header
                  THEN profile.header.workload ELSE << >>,
     collector |-> profile.collector_info.name,
     postprocessors |-> [i \in 1..Len(profile.postprocessors) |->
                            profile.postprocessors[i].name]]

\* __eq__: equality of the instance dictionaries (the class is not compared)
entry_eq(a, b) ==
    /\ a.time = b.time /\ a.checksum = b.checksum /\ a.path = b.path
    /\ a.offset = b.offset /\ a.type = b.type /\ a.cmd = b.cmd
    /\ a.workload = b.workload /\ a.collector = b.collector
    /\ a.postprocessors = b.postprocessors

\* the value returned when decoding fails
NoEntry == BasicIndexEntry(<< >>, << >>, << >>, -1)

\* BasicIndexEntry.read_from, lines 106-112: the entry of the time t, the checksum
\* sha and the path p read at pos
Basic_read_entry(pos, t, sha, p) ==
    IF ~t.ok \/ ~p.ok THEN [ok |-> FALSE, val |-> NoEntry, pos |-> pos]
    ELSE [ok |-> TRUE,
          val |-> BasicIndexEntry(timestamp_to_str(t.val), hexlify(sha), p.val, pos),
          pos |-> p.pos]

\* BasicIndexEntry.read_from, lines 107-111: the checksum and the path after the time t
Basic_read_after_time(f, pos, t) ==
    Basic_read_entry(pos, t, read(f, t.pos, CHECKSUM_BYTES),
                     read_path(f, t.pos + CHECKSUM_BYTES, << >>))

\* BasicIndexEntry.read_from
Basic_read_from(f, pos, index_version) ==
    IF SlowLorris < index_version THEN [ok |-> FALSE, val |-> NoEntry, pos |-> pos]
    ELSE Basic_read_after_time(f, pos, read_timestamp_from_file(f, pos))

\* BasicIndexEntry.write_to
Basic_write_to(e) ==
    write_timestamp(str_to_timestamp(e.time)) \o fromhex(e.checksum) \o e.path \o <<0>>

\* get_older_version
get_older_version(index_version) == index_version - 1

\* ExtendedIndexEntry._read_from_older_index, lines 211-219: the basic entry b is
\* completed from the profile that the object store holds under its checksum
read_from_older_index_profile(pos, b, prof) ==
    IF ~b.ok \/ ~prof.ok THEN [ok |-> FALSE, val |-> NoEntry, pos |-> pos]
    ELSE [ok |-> TRUE,
          val |-> ExtendedIndexEntry(b.val.time, b.val.checksum, b.val.path,
                                     b.val.offset, prof.val),
          pos |-> b.pos]

read_from_older_index_basic(pos, b) ==
    read_from_older_index_profile(pos, b, load_profile_from_file(b.val.checksum))

\* reading from the older index without loading the profile
read_from_older_index_nobackfill(f, pos, index_version) ==
    Basic_read_from(f, pos, index_version)

\* ExtendedIndexEntry._read_from_older_index
read_from_older_index(f, pos, index_version) ==
    read_from_older_index_basic(pos, Basic_read_from(f, pos, index_version))

\* ExtendedIndexEntry._read_from_same_index, lines 246-252: the entry of the basic
\* entry b, the strings s (type, cmd, workload, collector) and the list pp
read_from_same_index_entry(pos, b, s, pp) ==
    IF ~b.ok \/ ~s.ok \/ ~pp.ok
    THEN [ok |-> FALSE, val |-> NoEntry, pos |-> pos]
    ELSE [ok |-> TRUE,
          val |-> ExtendedIndexEntry(b.val.time, b.val.checksum, b.val.path,
                    b.val.offset,
                    [header |-> [type |-> s.val[1], cmd |-> s.val[2], workload |-> s.val[3]],
                     collector_info |-> [name |-> s.val[4]],
                     postprocessors |-> [i \in 1..Len(pp.val) |-> [name |-> pp.val[i]]]]),
          pos |-> pp.pos]

\* lines 241-243: the list of postprocessors after the four strings s
read_from_same_index_strings(f, pos, b, s) ==
    read_from_same_index_entry(pos, b, s, read_list_from_handle(f, s.pos))

\* lines 237-240: type, cmd, workload and collector, four strings after the basic entry b
read_from_same_index_basic(f, pos, b) ==
    read_from_same_index_strings(f, pos, b, read_strings(f, b.pos, 4, << >>))

\* ExtendedIndexEntry._read_from_same_index
read_from_same_index(f, pos, index_version) ==
    read_from_same_index_basic(f, pos, Basic_read_from(f, pos, get_older_version(index_version)))

\* read_from that reads every record as one of the current generation
Extended_read_from_same_always(f, pos, index_version) ==
    IF index_version \notin {SlowLorris, FastSloth}
    THEN [ok |-> FALSE, val |-> NoEntry, pos |-> pos]
    ELSE read_from_same_index(f, pos, FastSloth)

\* ExtendedIndexEntry.read_from; IndexVersion(index_version) accepts 1 and 2 only
Extended_read_from(f, pos, index_version) ==
    IF index_version \notin {SlowLorris, FastSloth}
    THEN [ok |-> FALSE, val |-> NoEntry, pos |-> pos]
    ELSE IF FastSloth > index_version THEN read_from_older_index(f, pos, index_version)
    ELSE read_from_same_index(f, pos, index_version)

\* write_to with the command and the workload in the wrong order
Extended_write_to_swapped(e) ==
    Basic_write_to(e)
        \o write_string_to_handle(e.type) \o write_string_to_handle(e.workload)
        \o write_string_to_handle(e.cmd) \o write_string_to_handle(e.collector)
        \o write_list_to_handle(e.postprocessors)

\* ExtendedIndexEntry.write_to
Extended_write_to(e) ==
    Basic_write_to(e)
        \o write_string_to_handle(e.type) \o write_string_to_handle(e.cmd)
        \o write_string_to_handle(e.workload) \o write_string_to_handle(e.collector)
        \o write_list_to_handle(e.postprocessors)

\* entry.write_to, dispatched on the class of the entry
write_to(e) == IF e.cls = FastSloth THEN Extended_write_to(e) ELSE Basic_write_to(e)

\* INDEX_ENTRY_CONSTRUCTORS[INDEX_VERSION - 1].read_from
entry_constructor_read_from(f, pos, index_version) == Extended_read_from(f, pos, index_version)

(***************************************************************************)
(* The walker and the lookups                                              *)
(***************************************************************************)
\* the predicates handed to the lookups, as data
\*   "all"    never stops the walk (a full walk)
\*   "insert" the insertion predicate of write_entry_to_index
\*   "key"    the lookup_function of remove_from_index
PredAll == [kind |-> "all", path |-> << >>, time |-> << >>]
PredInsert(e) == [kind |-> "insert", path |-> e.path, time |-> e.time]
PredKey(k) == [kind |-> "key", path |-> k, time |-> << >>]

\* the insertion predicate with a strict comparison of the times
Satisfies_strict(pred, entry) ==
    IF pred.kind = "insert"
    THEN \/ StrLess(pred.path, entry.path)
         \/ (entry.path = pred.path /\ StrLess(pred.time, entry.time))
    ELSE IF pred.kind = "key"
    THEN IF is_sha1(pred.path) THEN entry.checksum = pred.path ELSE entry.path = pred.path
    ELSE FALSE

Satisfies(pred, entry) ==
    IF pred.kind = "insert"
    THEN \/ StrLess(pred.path, entry.path)
         \/ (entry.path = pred.path /\ ~StrLess(entry.time, pred.time))
    ELSE IF pred.kind = "key"
    THEN IF is_sha1(pred.path) THEN entry.checksum = pred.path ELSE entry.path = pred.path
    ELSE FALSE

\* the loop of walk_index, consumed until the first entry that satisfies pred
RECURSIVE walk_loop(_, _, _, _, _, _, _)
\* lines 324-327: the entry r was read and is yielded to the consumer
walk_yield(f, index_version, number_of_objects, loaded_objects, acc, pred, r) ==
    IF ~r.ok
    THEN [entries |-> acc, err |-> "decode", warned |-> FALSE, found |-> FALSE]
    ELSE IF Satisfies(pred, r.val)
    THEN [entries |-> Append(acc, r.val), err |-> "none", warned |-> FALSE,
          found |-> TRUE]
    ELSE walk_loop(f, r.pos, index_version, number_of_objects,
                   loaded_objects + 1, Append(acc, r.val), pred)

\* the loop of walk_index without the comparison of lines 329-332
walk_loop_nowarn(f, pos, index_version, number_of_objects, loaded_objects, acc, pred) ==
    IF pos + WALK_MIN_REMAINING < Len(f) /\ loaded_objects < number_of_objects
    THEN walk_yield(f, index_version, number_of_objects, loaded_objects, acc, pred,
                    entry_constructor_read_from(f, pos, index_version))
    ELSE [entries |-> acc, err |-> "none", warned |-> FALSE, found |-> FALSE]

walk_loop(f, pos, index_version, number_of_objects, loaded_objects, acc, pred) ==
    IF pos + WALK_MIN_REMAINING < Len(f) /\ loaded_objects < number_of_objects
    THEN walk_yield(f, index_version, number_of_objects, loaded_objects, acc, pred,
                    entry_constructor_read_from(f, pos, index_version))
    ELSE [entries |-> acc, err |-> "none",
          warned |-> (loaded_objects # number_of_objects), found |-> FALSE]

\* the walk without the check of the format version
walk_until_anyversion(f, pred) ==
    LET version == read_int_from_handle(f, 4)
        count == read_int_from_handle(f, 8)
    IN  IF read(f, 0, 4) # INDEX_MAGIC_PREFIX
        THEN [entries |-> << >>, err |-> "malformed", warned |-> FALSE, found |-> FALSE]
        ELSE IF ~version.ok \/ ~count.ok
        THEN [entries |-> << >>, err |-> "decode", warned |-> FALSE, found |-> FALSE]
        ELSE walk_loop(f, INDEX_ENTRIES_START_OFFSET, version.val, count.val, 0, << >>, pred)

\* walk_index consumed by a reducer with predicate pred
walk_until(f, pred) ==
    LET version == read_int_from_handle(f, 4)
        count == read_int_from_handle(f, 8)
    IN  IF read(f, 0, 4) # INDEX_MAGIC_PREFIX
        THEN [entries |-> << >>, err |-> "malformed", warned |-> FALSE, found |-> FALSE]
        ELSE IF ~version.ok
        THEN [entries |-> << >>, err |-> "decode", warned |-> FALSE, found |-> FALSE]
        ELSE IF version.val > INDEX_VERSION
        THEN [entries |-> << >>, err |-> "malformed", warned |-> FALSE, found |-> FALSE]
        ELSE IF ~count.ok
        THEN [entries |-> << >>, err |-> "decode", warned |-> FALSE, found |-> FALSE]
        ELSE walk_loop(f, INDEX_ENTRIES_START_OFFSET, version.val, count.val, 0, << >>, pred)

\* walk_index, consumed to exhaustion
walk_index(f) == walk_until(f, PredAll)

\* the lookup that returns the first walked entry, whatever the predicate says of it
lookup_entry_of_walk_first(w) ==
    IF w.err # "none" THEN [err |-> w.err, entry |-> NoEntry]
    ELSE IF w.entries # << >> THEN [err |-> "none", entry |-> w.entries[1]]
    ELSE [err |-> "notfound", entry |-> NoEntry]

\* lookup_entry_within_index, lines 507-511: the outcome of the walk w
lookup_entry_of_walk(w) ==
    IF w.err # "none" THEN [err |-> w.err, entry |-> NoEntry]
    ELSE IF w.found THEN [err |-> "none", entry |-> w.entries[Len(w.entries)]]
    ELSE [err |-> "notfound", entry |-> NoEntry]

\* lookup_entry_within_index: the first entry satisfying the predicate
lookup_entry_within_index(f, pred) == lookup_entry_of_walk(walk_until(f, pred))

RECURSIVE SelectEntries(_, _)
SelectEntries(es, pred) ==
    IF es = << >> THEN << >>
    ELSE IF Satisfies(pred, Head(es)) THEN <<Head(es)>> \o SelectEntries(Tail(es), pred)
    ELSE SelectEntries(Tail(es), pred)

\* lookup_all_entries_within_index, line 523: the filter over the walk w
lookup_all_entries_of_walk(w, pred) ==
    [err |-> w.err, entries |-> IF w.err = "none" THEN SelectEntries(w.entries, pred) ELSE << >>]

\* lookup_all_entries_within_index
lookup_all_entries_within_index(f, pred) == lookup_all_entries_of_walk(walk_index(f), pred)

(***************************************************************************)
(* Header helpers                                                          *)
(***************************************************************************)
\* initialize_index_in_handle on an empty file
initialize_index_in_handle == INDEX_MAGIC_PREFIX \o pack_i(INDEX_VERSION) \o pack_i(0)

\* update_index_version
update_index_version(f) == write_at(f, 4, pack_i(INDEX_VERSION))

\* the functions handed to modify_number_of_entries_in_index, as data:
\* lambda x: x + 1 and lambda x: len(entry_list)
Increment == [kind |-> "increment", value |-> 1]
Constantly(n) == [kind |-> "constant", value |-> n]
Modify(modify, x) == IF modify.kind = "increment" THEN x + modify.value ELSE modify.value

\* modify_number_of_entries_in_index
modify_number_of_entries_in_index(f, modify) ==
    LET n == read_int_from_handle(f, INDEX_NUMBER_OF_ENTRIES_OFFSET)
    IN  IF ~n.ok THEN [ok |-> FALSE, file |-> f]
        ELSE [ok |-> TRUE,
              file |-> write_at(f, INDEX_NUMBER_OF_ENTRIES_OFFSET,
                                pack_i(Modify(modify, n.val)))]

(***************************************************************************)
(* Mutators.  Each returns the new content of the file and the outcome:    *)
(*   err = "none"       the call returned                                  *)
(*   err = "malformed"  MalformedIndexFileException reached the caller     *)
(*   err = "decode"     a read past the end of the file raised             *)
(*   err = "nofile"     the file does not exist                            *)
(***************************************************************************)
RECURSIVE write_entries(_)
write_entries(es) == IF es = << >> THEN << >> ELSE write_to(Head(es)) \o write_entries(Tail(es))

\* the insertion without the write of the buffer (line 471)
insert_counted_notail(f, file_entry, offset_in_file, m) ==
    IF ~m.ok THEN [file |-> f, err |-> "decode", registered |-> FALSE]
    ELSE [file |-> update_index_version(
                       truncate(write_at(m.file, offset_in_file, write_to(file_entry)),
                                offset_in_file + Len(write_to(file_entry)))),
          err |-> "none", registered |-> FALSE]

\* write_entry_to_index, lines 461-474: the entry is written at offset_in_file of
\* the file m whose count was incremented, before the bytes that followed
insert_counted(f, file_entry, offset_in_file, m) ==
    IF ~m.ok THEN [file |-> f, err |-> "decode", registered |-> FALSE]
    ELSE [file |-> update_index_version(
                       write_at(m.file, offset_in_file,
                                write_to(file_entry)
                                    \o read(m.file, offset_in_file, Len(m.file)))),
          err |-> "none", registered |-> FALSE]

\* write_entry_to_index, lines 459-474: the insertion at offset_in_file
insert_at(f, file_entry, offset_in_file) ==
    insert_counted(f, file_entry, offset_in_file,
                   modify_number_of_entries_in_index(f, Increment))

\* write_entry_to_index, lines 432-455: the outcome of the lookup of the position
write_entry_looked_up(f, file_entry, looked_up) ==
    IF looked_up.err = "none"
    THEN IF looked_up.entry.path = file_entry.path
            /\ looked_up.entry.time = file_entry.time
         THEN [file |-> f, err |-> "none", registered |-> TRUE]
         ELSE insert_at(f, file_entry, looked_up.entry.offset)
    ELSE IF looked_up.err = "notfound"
    THEN insert_at(f, file_entry, Len(f))
    ELSE [file |-> f, err |-> looked_up.err, registered |-> FALSE]

\* write_entry_to_index
write_entry_to_index(f, file_entry) ==
    IF file_entry.offset = -1
    THEN write_entry_looked_up(f, file_entry,
                               lookup_entry_within_index(f, PredInsert(file_entry)))
    ELSE insert_at(f, file_entry, file_entry.offset)

\* write_list_of_entries without the count of line 489
write_list_of_entries_nocount(entry_list) ==
    write_at(initialize_index_in_handle, INDEX_ENTRIES_START_OFFSET, write_entries(entry_list))

\* write_list_of_entries
write_list_of_entries(entry_list) ==
    LET m == modify_number_of_entries_in_index(initialize_index_in_handle,
                                               Constantly(Len(entry_list)))
    IN  write_at(m.file, INDEX_ENTRIES_START_OFFSET, write_entries(entry_list))

\* remove_from_index, lines 648-658: the outcome found of the lookup of one key,
\* before the outcomes rest of the following keys
lookup_removed_key(key, found, rest) ==
    IF found.err = "none"
    THEN [removed |-> <<found.entry>> \o rest.removed, notfound |-> rest.notfound]
    ELSE [removed |-> rest.removed, notfound |-> <<key>> \o rest.notfound]

\* remove_from_index, lines 638-658: one first-match lookup per key
RECURSIVE lookup_removed(_, _)
lookup_removed(f, keys) ==
    IF keys = << >> THEN [removed |-> << >>, notfound |-> << >>]
    ELSE lookup_removed_key(Head(keys),
                            lookup_entry_within_index(f, PredKey(Head(keys))),
                            lookup_removed(f, Tail(keys)))

\* entry in removed_entries
InList(entry, es) == \E i \in 1..Len(es) : entry_eq(entry, es[i])

\* the rewrite that keeps every walked entry
kept_entries_all(all_entries, removed_entries) == all_entries

RECURSIVE kept_entries(_, _)
kept_entries(all_entries, removed_entries) ==
    IF all_entries = << >> THEN << >>
    ELSE IF InList(Head(all_entries), removed_entries)
    THEN kept_entries(Tail(all_entries), removed_entries)
    ELSE <<Head(all_entries)>> \o kept_entries(Tail(all_entries), removed_entries)

\* the count that keeps the number of all entries
remaining_entries_unchanged(all_entries, removed_entries) == Len(all_entries)

\* remove_from_index, line 662: the count written to the header
remaining_entries(all_entries, removed_entries) == Len(all_entries) - Len(removed_entries)

\* the records are written after the header and the bytes that followed them stay
rewrite_records_notruncate(f, count, body) ==
    write_at(write_at(f, INDEX_NUMBER_OF_ENTRIES_OFFSET, pack_i(count)),
             INDEX_ENTRIES_START_OFFSET, body)

\* remove_from_index, lines 660-670: the count is written to the header, the kept
\* records body follow the header and the file ends after them
rewrite_records(f, count, body) ==
    truncate(write_at(write_at(f, INDEX_NUMBER_OF_ENTRIES_OFFSET, pack_i(count)),
                      INDEX_ENTRIES_START_OFFSET, body),
             INDEX_ENTRIES_START_OFFSET + Len(body))

\* remove_from_index, lines 660-670: all is the walk of the whole file, lk the
\* outcome of the lookups of the keys
remove_looked_up(f, all, lk) ==
    IF all.err # "none"
    THEN [file |-> f, err |-> all.err, removed |-> << >>, notfound |-> << >>]
    ELSE [file |-> rewrite_records(f, remaining_entries(all.entries, lk.removed),
                                   write_entries(kept_entries(all.entries, lk.removed))),
          err |-> "none", removed |-> lk.removed, notfound |-> lk.notfound]

\* remove_from_index (on an existing index file)
remove_from_index(f, removed_file_generator) ==
    IF Len(removed_file_generator) = 0
    THEN [file |-> f, err |-> "none", removed |-> << >>, notfound |-> << >>]
    ELSE remove_looked_up(f, walk_index(f), lookup_removed(f, removed_file_generator))

\* the list is returned and a file of the older version is left as it is
profile_list_of_walk_norewrite(f, index_version, w) ==
    IF ~index_version.ok THEN [file |-> f, err |-> "decode", result |-> << >>]
    ELSE IF w.err # "none" THEN [file |-> f, err |-> w.err, result |-> << >>]
    ELSE [file |-> f, err |-> "none", result |-> w.entries]

\* get_profile_list_for_minor, lines 694-700: the version of the header and the
\* walk w of the whole file
profile_list_of_walk(f, index_version, w) ==
    IF ~index_version.ok THEN [file |-> f, err |-> "decode", result |-> << >>]
    ELSE IF w.err # "none" THEN [file |-> f, err |-> w.err, result |-> << >>]
    ELSE [file |-> IF index_version.val < INDEX_VERSION
                   THEN write_list_of_entries(w.entries) ELSE f,
          err |-> "none", result |-> w.entries]

\* get_profile_list_for_minor (on an existing index file)
get_profile_list_for_minor(f) ==
    profile_list_of_walk(f, read_int_from_handle(f, 4), walk_index(f))

(***************************************************************************)
(* touch_index                                                             *)
(***************************************************************************)
\* touch_index without the test of os.path.exists
touch_index_always(exists, f) == [present |-> TRUE, file |-> initialize_index_in_handle]

touch_index(exists, f) ==
    IF ~exists THEN [present |-> TRUE, file |-> initialize_index_in_handle]
    ELSE [present |-> exists, file |-> f]

(***************************************************************************)
(* Inputs of the model                                                     *)
(***************************************************************************)
RemovalKeys == {PathA, Checksum1, ChecksumNone}

SeqsUpTo(S, n) == UNION {[1..k -> S] : k \in 0..n}

\* register_in_index: an entry of the current generation, built from the profile
\* that the object store holds under the checksum
RegisteredEntry(time, checksum, path, offset) ==
    ExtendedIndexEntry(time, checksum, path, offset, load_profile_from_file(checksum).val)

EntryA1 == RegisteredEntry(Time1, Checksum1, PathA, -1)
EntryA2 == RegisteredEntry(Time2, Checksum2, PathA, -1)
EntryB1 == RegisteredEntry(Time1, Checksum1, PathB, -1)

\* entries handed to write_entry_to_index: not yet placed (offset -1), or placed by
\* the caller at the start of the records
NewEntries ==
    {EntryA1, EntryA2, EntryB1, [EntryB1 EXCEPT !.offset = INDEX_ENTRIES_START_OFFSET]}

\* entries handed to write_list_of_entries
ListEntries == {EntryA1, EntryB1}

\* entries of the initial files of the older format
LegacyEntries == {EntryA1, EntryA2, EntryB1}

\* (path, time) order of the insertion predicate
EntryLess(a, b) == StrLess(a.path, b.path) \/ (a.path = b.path /\ StrLess(a.time, b.time))
EntryLeq(a, b) == StrLess(a.path, b.path) \/ (a.path = b.path /\ ~StrLess(b.time, a.time))

Sorted(es) == \A i \in 1..(Len(es) - 1) : EntryLeq(es[i], es[i + 1])
StrictlySorted(es) == \A i \in 1..(Len(es) - 1) : EntryLess(es[i], es[i + 1])

\* a header followed by a body
Header(magic, version, count) == magic \o pack_i(version) \o pack_i(count)

RECURSIVE write_basic_entries(_)
write_basic_entries(es) ==
    IF es = << >> THEN << >> ELSE Basic_write_to(Head(es)) \o write_basic_entries(Tail(es))

\* well-formed files of the older format: generation-1 records in (path, time) order
LegacyFiles ==
    {Header(INDEX_MAGIC_PREFIX, SlowLorris, Len(es)) \o write_basic_entries(es) :
        es \in {l \in SeqsUpTo(LegacyEntries, MaxEntries) : StrictlySorted(l)}}

BadMagic == <<112, 105, 100, 121>>
FutureVersion == INDEX_VERSION + 1

\* files that are not index files of a supported version
MalformedFiles ==
    LET one == <<EntryA1>>
    IN  {SubSeq(INDEX_MAGIC_PREFIX, 1, 3),
         Header(BadMagic, INDEX_VERSION, 0),
         Header(BadMagic, INDEX_VERSION, 1) \o write_entries(one),
         Header(INDEX_MAGIC_PREFIX, FutureVersion, 0),
         Header(INDEX_MAGIC_PREFIX, FutureVersion, 1) \o write_entries(one)}

IsMalformed(f) ==
    \/ read(f, 0, 4) # INDEX_MAGIC_PREFIX
    \/ (read_int_from_handle(f, 4).ok /\ read_int_from_handle(f, 4).val > INDEX_VERSION)

(***************************************************************************)
(* State                                                                   *)
(***************************************************************************)
VARIABLES
    present,    \* the index file exists
    file,       \* its content, a sequence of bytes
    last,       \* the last call: its arguments, the file before it, its outcome
    manager,    \* the ParametersManager of the trace collector
    callers     \* the calls of write_entry_to_index in progress: a frame for each caller

vars == <<present, file, last, manager, callers>>

\* no call of write_entry_to_index is in progress
NoCallers == << >>

\* no ParametersManager has been constructed
NoManager == [cli_params |-> << >>, param_map |-> << >>]

NoCall ==
    [op |-> "init", entry |-> NoEntry, keys |-> << >>, list |-> << >>,
     pre |-> << >>, prePresent |-> FALSE, err |-> "none", out |-> << >>,
     notfound |-> << >>, registered |-> FALSE, warned |-> FALSE, at |-> 0]

Call(op) == [NoCall EXCEPT !.op = op, !.pre = file, !.prePresent = present]

DeclaredCount(f) == read_int_from_handle(f, INDEX_NUMBER_OF_ENTRIES_OFFSET).val
DeclaredVersion(f) == read_int_from_handle(f, 4).val

Init ==
    /\ last = NoCall
    /\ manager = NoManager
    /\ callers = NoCallers
    /\ \/ present = FALSE /\ file = << >>
       \/ present = TRUE /\ file = initialize_index_in_handle
       \/ present = TRUE /\ file \in LegacyFiles
       \/ present = TRUE /\ file \in MalformedFiles

\* a call is made when the previous one has returned
Idle == last.op = "init"

\* the call returns: its handle is closed and its outcome is dropped
Return ==
    /\ ~Idle
    /\ last' = NoCall
    /\ UNCHANGED <<present, file, manager, callers>>

Touch ==
    /\ Idle
    /\ present' = touch_index(present, file).present
    /\ UNCHANGED <<manager, callers>>
    /\ file' = touch_index(present, file).file
    /\ last' = Call("touch")

WriteEntry ==
    \E e \in NewEntries :
        /\ Idle
        /\ present => DeclaredCount(file) < MaxEntries
        /\ \E r \in {write_entry_to_index(file, e)} :
               /\ file' = IF present THEN r.file ELSE file
               /\ last' = [Call("write") EXCEPT !.entry = e,
                              !.err = IF present THEN r.err ELSE "nofile",
                              !.registered = present /\ r.registered]
        /\ UNCHANGED <<present, manager, callers>>

Remove ==
    \E ks \in SeqsUpTo(RemovalKeys, MaxKeys) :
        /\ Idle
        /\ \E r \in {remove_from_index(file, ks)} :
               /\ file' = IF present THEN r.file ELSE file
               /\ last' = [Call("remove") EXCEPT !.keys = ks,
                              !.err = IF ~present /\ Len(ks) > 0 THEN "nofile"
                                      ELSE IF present THEN r.err ELSE "none",
                              !.out = IF present THEN r.removed ELSE << >>,
                              !.notfound = IF present THEN r.notfound ELSE << >>]
        /\ UNCHANGED <<present, manager, callers>>

WriteList ==
    \E l \in SeqsUpTo(ListEntries, MaxList) :
        /\ Idle
        /\ file' = write_list_of_entries(l)
        /\ present' = TRUE
        /\ UNCHANGED <<manager, callers>>
        /\ last' = [Call("write_list") EXCEPT !.list = l]

Walk ==
    /\ Idle
    /\ present
    /\ \E w \in {walk_index(file)} :
           last' = [Call("walk") EXCEPT !.err = w.err, !.out = w.entries,
                       !.warned = w.warned]
    /\ UNCHANGED <<present, file, manager, callers>>

Lookup ==
    \E k \in RemovalKeys :
        /\ Idle
        /\ present
        /\ \E r \in {lookup_entry_within_index(file, PredKey(k))} :
               last' = [Call("lookup") EXCEPT !.keys = <<k>>, !.err = r.err,
                           !.out = IF r.err = "none" THEN <<r.entry>> ELSE << >>]
        /\ UNCHANGED <<present, file, manager, callers>>

LookupAll ==
    \E k \in RemovalKeys :
        /\ Idle
        /\ present
        /\ \E r \in {lookup_all_entries_within_index(file, PredKey(k))} :
               last' = [Call("lookup_all") EXCEPT !.keys = <<k>>, !.err = r.err,
                           !.out = r.entries]
        /\ UNCHANGED <<present, file, manager, callers>>

GetProfileList ==
    /\ Idle
    /\ \E r \in {get_profile_list_for_minor(file)} :
           /\ file' = IF present THEN r.file ELSE file
           /\ last' = [Call("get_list") EXCEPT
                          !.err = IF present THEN r.err ELSE "none",
                          !.out = IF present THEN r.result ELSE << >>]
    /\ UNCHANGED <<present, manager, callers>>

Next ==
    \/ Touch
    \/ WriteEntry
    \/ Remove
    \/ WriteList
    \/ Walk
    \/ Lookup
    \/ LookupAll
    \/ GetProfileList
    \/ Return

Spec == Init /\ [][Next]_vars

TypeOK ==
    /\ present \in BOOLEAN
    /\ \A i \in 1..Len(file) : file[i] \in 0..255
    /\ last.err \in {"none", "malformed", "decode", "nofile", "notfound"}

(***************************************************************************)
(* The codec on its own: an entry is written to an empty handle after pad  *)
(* bytes and read back at that position                                    *)
(***************************************************************************)
CodecPaths == {PathA, PathB, << >>, PathA \o PathB}
CodecOffsets == {-1, 0, INDEX_ENTRIES_START_OFFSET}
CodecPads == {0, INDEX_ENTRIES_START_OFFSET}

CodecEntries ==
    {BasicIndexEntry(t, c, p, o) :
        t \in {Time1, Time2}, c \in {Checksum1, Checksum2}, p \in CodecPaths, o \in CodecOffsets}
    \cup
    {ExtendedIndexEntry(t, c, p, o, prof) :
        t \in {Time1, Time2}, c \in {Checksum1, Checksum2}, p \in CodecPaths, o \in CodecOffsets,
        prof \in {Profile1, Profile2}}

\* cls.read_from of the class of the entry, on a file of the format of that class
read_from(f, pos, cls) ==
    IF cls = FastSloth THEN Extended_read_from(f, pos, FastSloth)
    ELSE Basic_read_from(f, pos, SlowLorris)

InitCodec ==
    /\ present = FALSE
    /\ file = << >>
    /\ last = NoCall
    /\ manager = NoManager
    /\ callers = NoCallers

RoundTrip ==
    \E e \in CodecEntries, pad \in CodecPads :
        /\ Idle
        /\ file' = [i \in 1..pad |-> 0] \o write_to(e)
        /\ present' = TRUE
        /\ UNCHANGED <<manager, callers>>
        /\ \E d \in {read_from(file', pad, e.cls)} :
               last' = [Call("roundtrip") EXCEPT !.entry = e, !.at = pad,
                           !.err = IF d.ok THEN "none" ELSE "decode",
                           !.out = IF d.ok THEN <<d.val>> ELSE << >>]

Forget ==
    /\ ~Idle
    /\ present' = FALSE
    /\ UNCHANGED <<manager, callers>>
    /\ file' = << >>
    /\ last' = NoCall

NextCodec ==
    \/ RoundTrip
    \/ Forget

SpecCodec == InitCodec /\ [][NextCodec]_vars

(***************************************************************************)
(* Vocabulary of the properties                                            *)
(***************************************************************************)
Walked(f) == walk_index(f).entries

\* the file is a header followed by exactly the records that the walk yields, in
\* the generation that the header declares
WellFormed(f) ==
    /\ walk_index(f).err = "none"
    /\ f = Header(INDEX_MAGIC_PREFIX, DeclaredVersion(f), Len(Walked(f)))
             \o (IF DeclaredVersion(f) = FastSloth THEN write_entries(Walked(f))
                 ELSE write_basic_entries(Walked(f)))

IsMutator(op) == op \in {"write", "remove", "write_list"}

SamePathTime(a, b) == a.path = b.path /\ a.time = b.time

HasDuplicate(f, e) == \E i \in 1..Len(Walked(f)) : SamePathTime(Walked(f)[i], e)

KeyMatches(k, e) == IF is_sha1(k) THEN e.checksum = k ELSE e.path = k

KeyMatchesSome(k, es) == \E j \in 1..Len(es) : KeyMatches(k, es[j])

\* number of keys of the collection that match some record
MatchedKeys(f, ks) == Cardinality({i \in 1..Len(ks) : KeyMatchesSome(ks[i], Walked(f))})

RECURSIVE UnmatchedKeys(_, _)
UnmatchedKeys(es, ks) ==
    IF ks = << >> THEN << >>
    ELSE IF KeyMatchesSome(Head(ks), es) THEN UnmatchedKeys(es, Tail(ks))
    ELSE <<Head(ks)>> \o UnmatchedKeys(es, Tail(ks))

(***************************************************************************)
(* C1: after any successful mutator call on a file that was well formed,   *)
(* the entry_count of the header equals the number of records that         *)
(* walk_index yields from the file.                                        *)
(***************************************************************************)
C1_HeaderCountMatchesWalk ==
    (/\ IsMutator(last.op) /\ last.err = "none"
     /\ last.op # "write_list" => (last.prePresent /\ WellFormed(last.pre)))
    => (/\ walk_index(file).err = "none"
        /\ Len(Walked(file)) = DeclaredCount(file))

(***************************************************************************)
(* C2: an insert without pre-computed offset into a file whose records are *)
(* in (path, time) order leaves a file whose records, read in file order,  *)
(* are in (path, time) order.                                              *)
(***************************************************************************)
C2_InsertKeepsOrder ==
    (/\ last.op = "write" /\ last.err = "none" /\ last.entry.offset = -1
     /\ last.prePresent /\ WellFormed(last.pre) /\ Sorted(Walked(last.pre)))
    => (/\ walk_index(file).err = "none"
        /\ Len(Walked(file)) = DeclaredCount(file)
        /\ Sorted(Walked(file)))

(***************************************************************************)
(* C3, as claimed: an insert of an entry whose (path, time) equals that of *)
(* a record of the file leaves the file byte-identical, whatever the       *)
(* position of that record.                                                *)
(***************************************************************************)
C3_DuplicateAnywhereSuppressed ==
    (/\ last.op = "write" /\ last.prePresent /\ last.entry.offset = -1
     /\ WellFormed(last.pre) /\ DeclaredVersion(last.pre) = INDEX_VERSION
     /\ HasDuplicate(last.pre, last.entry))
    => file = last.pre

(***************************************************************************)
(* C3, amended: an insert, without pre-computed offset, of an entry whose  *)
(* (path, time) equals that of a record of a file whose records are in     *)
(* (path, time) order is reported as already registered and leaves the     *)
(* file byte-identical.                                                    *)
(***************************************************************************)
C3_DuplicateSuppressed ==
    (/\ last.op = "write" /\ last.prePresent /\ last.entry.offset = -1
     /\ walk_index(last.pre).err = "none" /\ Sorted(Walked(last.pre))
     /\ HasDuplicate(last.pre, last.entry))
    => (file = last.pre /\ last.registered /\ last.err = "none")

C3_Witness ==
    /\ last.op = "write" /\ last.prePresent /\ last.entry.offset = -1
    /\ walk_index(last.pre).err = "none" /\ Sorted(Walked(last.pre))
    /\ Len(Walked(last.pre)) >= 2
    /\ SamePathTime(Walked(last.pre)[2], last.entry)
    /\ file = last.pre /\ last.registered

(***************************************************************************)
(* C4: after a removal with keys K no surviving record matches a key of K. *)
(***************************************************************************)
C4_NoSurvivorMatchesKey ==
    (/\ last.op = "remove" /\ last.err = "none" /\ last.prePresent
     /\ WellFormed(last.pre) /\ DeclaredVersion(last.pre) = INDEX_VERSION
     /\ StrictlySorted(Walked(last.pre)))
    => \A i \in 1..Len(last.keys) : ~KeyMatchesSome(last.keys[i], Walked(file))

(***************************************************************************)
(* C5: a removal on a well-formed file decreases the entry_count of the    *)
(* header by exactly the number of keys that matched some record.          *)
(***************************************************************************)
C5_CountDecreasesByMatchedKeys ==
    (/\ last.op = "remove" /\ last.err = "none" /\ last.prePresent
     /\ WellFormed(last.pre))
    => DeclaredCount(file) = DeclaredCount(last.pre) - MatchedKeys(last.pre, last.keys)

C5_Witness ==
    /\ last.op = "remove" /\ last.err = "none" /\ last.prePresent
    /\ WellFormed(last.pre)
    /\ Len(last.keys) = 2 /\ MatchedKeys(last.pre, last.keys) = 1
    /\ DeclaredCount(last.pre) = 2 /\ DeclaredCount(file) = 1

(***************************************************************************)
(* C6: a key that matches no record is reported as not found and does not  *)
(* abort the removal; when no key matches, the file is the same after the  *)
(* call as before.                                                         *)
(***************************************************************************)
C6_UnmatchedKeysLeaveFile ==
    (/\ last.op = "remove" /\ last.prePresent /\ WellFormed(last.pre))
    => (/\ last.err = "none"
        /\ last.notfound = UnmatchedKeys(Walked(last.pre), last.keys)
        /\ MatchedKeys(last.pre, last.keys) = 0 => file = last.pre)

(***************************************************************************)
(* C7, as claimed: reading back what write_to wrote gives an entry equal   *)
(* to the written one in every field.                                      *)
(***************************************************************************)
C7_RoundTripAllFields ==
    last.op = "roundtrip"
    => (last.err = "none" /\ Len(last.out) = 1 /\ entry_eq(last.out[1], last.entry))

(***************************************************************************)
(* C7, amended: reading back what write_to wrote gives an entry equal to   *)
(* the written one in every field but offset; its offset is the position   *)
(* at which the record starts.                                             *)
(***************************************************************************)
C7_RoundTripButOffset ==
    last.op = "roundtrip"
    => (/\ last.err = "none" /\ Len(last.out) = 1
        /\ entry_eq(last.out[1], [last.entry EXCEPT !.offset = last.at]))

C7_Witness ==
    /\ last.op = "roundtrip" /\ last.err = "none"
    /\ last.entry.cls = FastSloth /\ last.entry.offset = -1
    /\ last.entry.postprocessors # << >> /\ last.entry.path = PathA \o PathB
    /\ last.at = INDEX_ENTRIES_START_OFFSET
    /\ last.out[1].offset = INDEX_ENTRIES_START_OFFSET
    /\ last.out[1].postprocessors = last.entry.postprocessors

(***************************************************************************)
(* C8: walking a well-formed file of version 1 yields, for each            *)
(* generation-1 record, an entry with the time, checksum and path of the   *)
(* record and the extended fields of the profile that the object store     *)
(* holds under the checksum; an insert into such a file sets the declared  *)
(* version to the current one and keeps every byte of the generation-1     *)
(* records.                                                                *)
(***************************************************************************)
BackfilledFrom(e, f) ==
    LET b == Basic_read_from(f, e.offset, SlowLorris)
        prof == load_profile_from_file(b.val.checksum).val
    IN  /\ b.ok
        /\ e.time = b.val.time /\ e.checksum = b.val.checksum /\ e.path = b.val.path
        /\ e.type = prof.header.type /\ e.cmd = prof.header.cmd
        /\ e.workload = (IF "workload" \in DOMAIN prof.header
                         THEN prof.header.workload ELSE << >>)
        /\ e.collector = prof.collector_info.name
        /\ Len(e.postprocessors) = Len(prof.postprocessors)
        /\ \A j \in 1..Len(e.postprocessors) : e.postprocessors[j] = prof.postprocessors[j].name

\* the entries are those of consecutive generation-1 records from byte 12 to the end
ConsecutiveLegacyRecords(es, f) ==
    /\ Len(es) = DeclaredCount(f)
    /\ Len(es) > 0 => es[1].offset = INDEX_ENTRIES_START_OFFSET
    /\ \A i \in 1..Len(es) :
          Basic_read_from(f, es[i].offset, SlowLorris).pos
              = (IF i < Len(es) THEN es[i + 1].offset ELSE Len(f))

C9_WritesUpgradeVersion ==
    (/\ last.err = "none"
     /\ \/ last.op = "write_list"
        \/ /\ last.prePresent /\ WellFormed(last.pre)
           /\ \/ last.op = "write" /\ ~last.registered
              \/ last.op = "remove" /\ Len(last.keys) > 0)
    => DeclaredVersion(file) = INDEX_VERSION

(***************************************************************************)
(* C10, as claimed: every index operation on a file with a wrong magic or  *)
(* a version greater than the current one aborts with the format error,    *)
(* yields no entry and leaves the file unchanged.                          *)
(***************************************************************************)
WalkingOps == {"walk", "lookup", "lookup_all", "write", "remove", "get_list"}

C10_MalformedAlwaysAborts ==
    (/\ last.op \in WalkingOps /\ last.prePresent
     /\ IsMalformed(last.pre) /\ Len(last.pre) >= INDEX_ENTRIES_START_OFFSET
     /\ last.op = "remove" => Len(last.keys) > 0)
    => (last.err = "malformed" /\ last.out = << >> /\ file = last.pre)

(***************************************************************************)
(* C10, amended: every index operation that walks the file (an insert only *)
(* when the entry carries no pre-computed offset, a removal only with a    *)
(* non-empty key collection), on a file with a complete header and a wrong *)
(* magic or a version greater than the current one, aborts with the format *)
(* error, yields no entry and leaves the file unchanged.                   *)
(***************************************************************************)
C10_MalformedAbortsWalkers ==
    (/\ last.op \in WalkingOps /\ last.prePresent
     /\ IsMalformed(last.pre) /\ Len(last.pre) >= INDEX_ENTRIES_START_OFFSET
     /\ last.op = "remove" => Len(last.keys) > 0
     /\ last.op = "write" => last.entry.offset = -1)
    => (last.err = "malformed" /\ last.out = << >> /\ file = last.pre)

C10_Witness ==
    /\ last.op = "write" /\ last.prePresent /\ last.entry.offset = -1
    /\ DeclaredVersion(last.pre) > INDEX_VERSION
    /\ read(last.pre, 0, 4) = INDEX_MAGIC_PREFIX
    /\ Len(last.pre) > INDEX_ENTRIES_START_OFFSET
    /\ last.err = "malformed" /\ file = last.pre

(***************************************************************************)
(* The walker on a handle: files whose header count and body disagree, and *)
(* a handle whose cursor is anywhere before the call                       *)
(***************************************************************************)
\* most records in the body of a file handed to the walker
MaxRecords == 2
\* largest entry_count declared by such a file
MaxCount == 3

WalkerEntries == {EntryA1, EntryA2}

\* bytes missing at the end of the body (a write that was interrupted)
CutBytes == {0, 5, 30}

\* the records of es in the generation of format version v
write_records(v, es) == IF v = FastSloth THEN write_entries(es) ELSE write_basic_entries(es)

\* a header that declares count records, followed by the records of es without the
\* last cut bytes
WalkerFile(v, count, es, cut) ==
    Header(INDEX_MAGIC_PREFIX, v, count)
        \o SubSeq(write_records(v, es), 1, Len(write_records(v, es)) - cut)

WalkerShapes ==
    {sh \in [v : {SlowLorris, FastSloth}, count : 0..MaxCount,
             es : SeqsUpTo(WalkerEntries, MaxRecords), cut : CutBytes] :
        sh.cut <= Len(write_records(sh.v, sh.es))}

WalkerFiles == {WalkerFile(sh.v, sh.count, sh.es, sh.cut) : sh \in WalkerShapes}

\* index_handle.seek(offset) with a cursor that stays where it was
seek_ignored(cursor, offset) == cursor

\* index_handle.seek(offset): the cursor before the call does not matter
seek(cursor, offset) == offset

\* walk_index, lines 307-332, with every read at the cursor of the handle, which is at
\* start when the magic is read
walk_from(f, start, pred) ==
    LET version == read_int_from_handle(f, start + 4)
        count == read_int_from_handle(f, start + 8)
    IN  IF read(f, start, 4) # INDEX_MAGIC_PREFIX
        THEN [entries |-> << >>, err |-> "malformed", warned |-> FALSE, found |-> FALSE]
        ELSE IF ~version.ok
        THEN [entries |-> << >>, err |-> "decode", warned |-> FALSE, found |-> FALSE]
        ELSE IF version.val > INDEX_VERSION
        THEN [entries |-> << >>, err |-> "malformed", warned |-> FALSE, found |-> FALSE]
        ELSE IF ~count.ok
        THEN [entries |-> << >>, err |-> "decode", warned |-> FALSE, found |-> FALSE]
        ELSE walk_loop(f, count.pos, version.val, count.val, 0, << >>, pred)

\* walk_index on a handle whose cursor is at cursor
walk_index_handle(f, cursor) == walk_from(f, seek(cursor, 0), PredAll)

\* positions of the cursor of a handle before a walk: a fresh handle, after the
\* header was read (print_index_from_handle), after a walk to the end of the file
Cursors(f) == {0, INDEX_ENTRIES_START_OFFSET, Len(f)}

InitWalker ==
    /\ present = TRUE
    /\ file \in WalkerFiles
    /\ last = NoCall
    /\ manager = NoManager
    /\ callers = NoCallers

\* a walk to exhaustion on a handle at any cursor
WalkAt ==
    \E c \in Cursors(file) :
        /\ Idle
        /\ \E w \in {walk_index_handle(file, c)} :
               last' = [Call("walk") EXCEPT !.at = c, !.err = w.err, !.out = w.entries,
                           !.warned = w.warned]
        /\ UNCHANGED <<present, file, manager, callers>>

\* a second walk on the handle of a walk, the file not modified in between
WalkAgain ==
    \E c \in Cursors(file) :
        /\ last.op = "walk"
        /\ \E w \in {walk_index_handle(file, c)} :
               last' = [Call("rewalk") EXCEPT !.at = c, !.err = w.err, !.out = w.entries,
                           !.warned = w.warned, !.list = last.out]
        /\ UNCHANGED <<present, file, manager, callers>>

LookupKeys == RemovalKeys \cup {Checksum2}

\* EntryNotFoundException(looked_up_entry_name), line 511: what the exception carries
EntryNotFoundException(r, looked_up_entry_name) ==
    IF r.err = "notfound" THEN <<looked_up_entry_name>> ELSE << >>

\* lookup_entry_within_index, with the records that the walk decoded for it
LookupFirst ==
    \E k \in LookupKeys :
        /\ Idle
        /\ \E w \in {walk_until(file, PredKey(k))} :
           \E r \in {lookup_entry_of_walk(w)} :
               last' = [Call("lookup") EXCEPT !.keys = <<k>>, !.err = r.err,
                           !.out = IF r.err = "none" THEN <<r.entry>> ELSE << >>,
                           !.notfound = EntryNotFoundException(r, k),
                           !.list = w.entries]
        /\ UNCHANGED <<present, file, manager, callers>>

NextWalker ==
    \/ WalkAt
    \/ WalkAgain
    \/ LookupFirst
    \/ LookupAll
    \/ Return

SpecWalker == InitWalker /\ [][NextWalker]_vars

\* number of bytes of the record of e in the generation of format version v
RecordLen(v, e) == Len(write_records(v, <<e>>))

\* number of leading records of es that are whole within room bytes
RECURSIVE FittingRecords(_, _, _)
FittingRecords(v, es, room) ==
    IF es = << >> \/ RecordLen(v, Head(es)) > room THEN 0
    ELSE 1 + FittingRecords(v, Tail(es), room - RecordLen(v, Head(es)))

BodyLen(sh) == Len(write_records(sh.v, sh.es)) - sh.cut

\* records that fit before the end of the file
Fit(sh) == FittingRecords(sh.v, sh.es, BodyLen(sh))

\* bytes of the file after the last whole record
TrailingBytes(sh) == BodyLen(sh) - Len(write_records(sh.v, SubSeq(sh.es, 1, Fit(sh))))

Min(a, b) == IF a < b THEN a ELSE b

\* the walked entry e is the record written from the entry x
SameRecord(e, x) == entry_eq(e, [x EXCEPT !.offset = e.offset])

\* the outcome of the last walk is that of min(count, records that fit) records
YieldsMinOfCountAndFit(sh) ==
    /\ last.err = "none"
    /\ Len(last.out) = Min(sh.count, Fit(sh))
    /\ \A i \in 1..Len(last.out) : SameRecord(last.out[i], sh.es[i])
    /\ \A i \in 1..(Len(last.out) - 1) : last.out[i].offset < last.out[i + 1].offset
    /\ last.warned <=> (Len(last.out) # sh.count)

IsWalk(op) == op \in {"walk", "rewalk"}

\* the shapes of which f is the file
ShapesOf(f) ==
    {sh \in [v : {DeclaredVersion(f)}, count : {DeclaredCount(f)},
             es : SeqsUpTo(WalkerEntries, MaxRecords), cut : CutBytes] :
        /\ sh.cut <= Len(write_records(sh.v, sh.es))
        /\ f = WalkerFile(sh.v, sh.count, sh.es, sh.cut)}

(***************************************************************************)
(* C11, as claimed: walk_index on a file with a valid header yields, in    *)
(* file order, exactly min(declared entry_count, number of records that    *)
(* fit before end-of-file) entries, does not raise, and warns of the       *)
(* mismatch if and only if the number of entries yielded differs from the  *)
(* declared entry_count.                                                   *)
(***************************************************************************)
C11_WalkYieldsMinOfCountAndRecords ==
    IsWalk(last.op)
    => \A sh \in ShapesOf(file) : YieldsMinOfCountAndFit(sh)

(***************************************************************************)
(* C11, amended: the same, for a file in which at most 24 bytes follow the *)
(* last whole record or whose declared entry_count is not greater than the *)
(* number of whole records.                                                *)
(***************************************************************************)
C11_WalkYieldsMinUnlessLongFragment ==
    IsWalk(last.op)
    => \A sh \in ShapesOf(file) :
          (TrailingBytes(sh) <= WALK_MIN_REMAINING \/ sh.count <= Fit(sh))
          => YieldsMinOfCountAndFit(sh)

\* scenario 4 of the specification: count 3, two records
C11_Witness ==
    /\ last.op = "walk" /\ last.err = "none"
    /\ DeclaredCount(file) = 3 /\ Len(last.out) = 2 /\ last.warned
    /\ file = WalkerFile(FastSloth, 3, <<EntryA1, EntryA2>>, 0)

(***************************************************************************)
(* C12: whenever the entry_count of the header differs from the number of  *)
(* records stored in the body, whether it is greater or smaller, a full    *)
(* walk of the file signals the mismatch.                                  *)
(***************************************************************************)
C12_MismatchAlwaysSignalled ==
    IsWalk(last.op)
    => \A sh \in ShapesOf(file) :
          (sh.cut = 0 /\ sh.count # Len(sh.es)) => (last.warned \/ last.err # "none")

InsertionPoints(f, e) ==
    IF e.offset # -1 THEN {e.offset}
    ELSE {Walked(f)[i].offset : i \in 1..Len(Walked(f))} \cup {Len(f)}

InsertedAt(f, g, r, p) ==
    /\ Len(g) = Len(f) + Len(r)
    /\ SubSeq(g, p + 1, p + Len(r)) = r
    /\ SubSeq(g, p + Len(r) + 1, Len(g)) = SubSeq(f, p + 1, Len(f))
    /\ \A i \in 1..p : g[i] # f[i] => (i > 4 /\ i <= INDEX_ENTRIES_START_OFFSET)
    /\ DeclaredCount(g) = DeclaredCount(f) + 1
    /\ DeclaredVersion(g) = INDEX_VERSION

C14_InsertShiftsTail ==
    (/\ last.op = "write" /\ last.prePresent /\ last.err = "none" /\ ~last.registered)
    => \E p \in InsertionPoints(last.pre, last.entry) :
          InsertedAt(last.pre, file, write_to(last.entry), p)

\* an insert between two records
C14_Witness ==
    /\ last.op = "write" /\ last.prePresent /\ last.err = "none" /\ ~last.registered
    /\ last.entry.offset = -1
    /\ Len(Walked(last.pre)) = 2
    /\ InsertedAt(last.pre, file, write_to(last.entry), Walked(last.pre)[2].offset)
    /\ Len(Walked(file)) = 3

(***************************************************************************)
(* The full rewrite on its own: any list of entries, of either class, over *)
(* any previous content                                                    *)
(***************************************************************************)
\* an entry of the base class, as the signature list[BasicIndexEntry] admits
BasicA1 == BasicIndexEntry(Time1, Checksum1, PathA, -1)

RewriteEntries == ListEntries \cup {EntryA2, BasicA1}

InitRewrite ==
    /\ last = NoCall
    /\ manager = NoManager
    /\ callers = NoCallers
    /\ \/ present = FALSE /\ file = << >>
       \/ present = TRUE /\ file \in WalkerFiles \cup MalformedFiles

RewriteList ==
    \E l \in SeqsUpTo(RewriteEntries, MaxList) :
        /\ Idle
        /\ file' = write_list_of_entries(l)
        /\ present' = TRUE
        /\ UNCHANGED <<manager, callers>>
        /\ last' = [Call("write_list") EXCEPT !.list = l]

NextRewrite ==
    \/ RewriteList
    \/ Return

SpecRewrite == InitRewrite /\ [][NextRewrite]_vars

\* the file is a current header for the list l, then the encodings of its entries, and
\* the walk yields the entries of l in their order
RewrittenAs(f, l) ==
    /\ read(f, 0, 4) = INDEX_MAGIC_PREFIX
    /\ DeclaredVersion(f) = INDEX_VERSION
    /\ DeclaredCount(f) = Len(l)
    /\ read(f, INDEX_ENTRIES_START_OFFSET, Len(f)) = write_entries(l)
    /\ walk_index(f).err = "none"
    /\ ~walk_index(f).warned
    /\ Len(Walked(f)) = Len(l)
    /\ \A i \in 1..Len(l) : SameRecord(Walked(f)[i], l[i])

(***************************************************************************)
(* C15, as claimed: after write_list_of_entries(file, L), whatever the     *)
(* file contained before, the file is a header with the magic, the current *)
(* version and the count len(L), followed only by the encodings of the     *)
(* entries of L in their order, and walk_index yields the entries of L in  *)
(* that order.                                                             *)
(***************************************************************************)
C15_RewriteYieldsList ==
    last.op = "write_list" => RewrittenAs(file, last.list)

(***************************************************************************)
(* C15, amended: the same for a list L of entries of the current           *)
(* generation (extended entries); the walked entries equal those of L in   *)
(* every field but offset.                                                 *)
(***************************************************************************)
C15_RewriteYieldsExtendedList ==
    (/\ last.op = "write_list"
     /\ \A i \in 1..Len(last.list) : last.list[i].cls = FastSloth)
    => RewrittenAs(file, last.list)

\* a list that is not in (path, time) order, over a file that had three records
C15_Witness ==
    /\ last.op = "write_list" /\ last.prePresent
    /\ Len(last.pre) > Len(file)
    /\ last.list = <<EntryB1, EntryA2>>
    /\ RewrittenAs(file, last.list)
    /\ Walked(file)[1].path = PathB /\ Walked(file)[2].path = PathA

(***************************************************************************)
(* C16: lookup_entry_within_index returns the first entry, in file order,  *)
(* that satisfies the predicate, decodes no record after it, and raises    *)
(* EntryNotFound with the searched identifier exactly when no walked entry *)
(* satisfies the predicate; lookup_all_entries_within_index returns        *)
(* exactly the walked entries that satisfy the predicate, in file order.   *)
(***************************************************************************)
\* positions of the entries of es that the key k matches
MatchingPositions(k, es) == {i \in 1..Len(es) : KeyMatches(k, es[i])}

\* es is the first n entries of the sequence fs
IsPrefix(es, n, fs) == Len(es) = n /\ n <= Len(fs) /\ \A i \in 1..n : es[i] = fs[i]

FirstMatchOf(k, es) ==
    IF MatchingPositions(k, es) = {}
    THEN /\ last.err = "notfound" /\ last.out = << >> /\ last.notfound = <<k>>
    ELSE \E n \in MatchingPositions(k, es) :
            /\ \A m \in MatchingPositions(k, es) : n <= m
            /\ last.err = "none" /\ last.out = <<es[n]>> /\ last.notfound = << >>
            /\ IsPrefix(last.list, n, es)

\* the entries of out are those of es that the key k matches, in the order of es
AllMatchesOf(k, es, out) ==
    /\ Len(out) = Cardinality(MatchingPositions(k, es))
    /\ \A i \in 1..Len(out) : \E n \in MatchingPositions(k, es) : out[i] = es[n]
    /\ \A i \in 1..(Len(out) - 1) : out[i].offset < out[i + 1].offset

C16_LookupFirstAndAll ==
    /\ (last.op = "lookup" /\ walk_index(file).err = "none")
       => FirstMatchOf(last.keys[1], Walked(file))
    /\ (last.op = "lookup" /\ last.err = "none")
       => (/\ KeyMatches(last.keys[1], last.out[1])
           /\ last.list[Len(last.list)] = last.out[1]
           /\ MatchingPositions(last.keys[1], last.list) = {Len(last.list)})
    /\ last.op = "lookup_all"
       => (/\ last.err = walk_index(file).err
           /\ last.err = "none" => AllMatchesOf(last.keys[1], Walked(file), last.out))

\* the first match is returned from a file whose next record cannot be decoded
C16_Witness ==
    /\ last.op = "lookup" /\ last.err = "none"
    /\ file = WalkerFile(FastSloth, 2, <<EntryA1, EntryA2>>, 5)
    /\ last.keys = <<PathA>>
    /\ Len(last.list) = 1 /\ last.out[1].time = Time1
    /\ walk_index(file).err = "decode"

(***************************************************************************)
(* C19: the sequence that walk_index yields does not depend on the cursor  *)
(* of the handle before the call, two consecutive walks of a file that was *)
(* not modified in between yield the same sequence, and a walk changes no  *)
(* byte of the file.                                                       *)
(***************************************************************************)
C19_WalkRestartableReadOnly ==
    /\ IsWalk(last.op)
       => (/\ file = last.pre
           /\ last.out = walk_index_handle(file, 0).entries
           /\ last.err = walk_index_handle(file, 0).err
           /\ last.warned = walk_index_handle(file, 0).warned
           /\ last.out = Walked(file))
    /\ last.op = "rewalk" => last.out = last.list

\* a second walk on a handle that the first walk left at the end of the file
C19_Witness ==
    /\ last.op = "rewalk" /\ last.err = "none"
    /\ last.at = Len(file) /\ last.at > INDEX_ENTRIES_START_OFFSET
    /\ Len(last.out) = 2 /\ last.list = last.out
    /\ file = last.pre

(***************************************************************************)
(* The auxiliary compressed index (load_custom_index, save_custom_index).  *)
(* The file of the path is (present, file); a document is a mapping or a   *)
(* list, its JSON text and the compressed stream are sequences of bytes.   *)
(***************************************************************************)
EmptyMapping == [kind |-> "dict", items |-> << >>]
\* {"k": 1}
OneKeyMapping == [kind |-> "dict", items |-> << [key |-> <<107>>, value |-> 1] >>]
EmptyList == [kind |-> "list", items |-> << >>]
JsonDocs == {EmptyMapping, OneKeyMapping, EmptyList}

\* "key": value of one item, with the indent of two blanks
RECURSIVE json_items(_)
json_items(items) ==
    IF items = << >> THEN << >>
    ELSE <<10, 32, 32, 34>> \o Head(items).key \o <<34, 58, 32, 48 + Head(items).value>>
            \o (IF Len(items) > 1 THEN <<44>> ELSE <<10>>) \o json_items(Tail(items))

\* json.dumps(records, indent=2).encode("utf-8")
json_dumps(doc) ==
    IF doc.kind = "list" THEN <<91>> \o json_items(doc.items) \o <<93>>
    ELSE <<123>> \o json_items(doc.items) \o <<125>>

\* json.loads: the document of a JSON text, JSONDecodeError (a ValueError) otherwise
json_loads(text) ==
    IF \E d \in JsonDocs : json_dumps(d) = text
    THEN [raised |-> "none", val |-> CHOOSE d \in JsonDocs : json_dumps(d) = text]
    ELSE [raised |-> "ValueError", val |-> EmptyMapping]

ZLIB_HEADER == <<120, 156>>

RECURSIVE SumBytes(_)
SumBytes(b) == IF b = << >> THEN 0 ELSE (Head(b) + SumBytes(Tail(b))) % 256

\* store.pack_content: the compressed stream of the content (header, data, checksum)
pack_content(content) == ZLIB_HEADER \o content \o <<SumBytes(content)>>

\* zlib.decompress: zlib.error for a stream that is empty, truncated or not a stream
decompress(b) ==
    IF Len(b) < Len(ZLIB_HEADER) + 1 \/ SubSeq(b, 1, Len(ZLIB_HEADER)) # ZLIB_HEADER
    THEN [raised |-> "zlib.error", val |-> << >>]
    ELSE IF SumBytes(SubSeq(b, Len(ZLIB_HEADER) + 1, Len(b) - 1)) # b[Len(b)]
    THEN [raised |-> "zlib.error", val |-> << >>]
    ELSE [raised |-> "none", val |-> SubSeq(b, Len(ZLIB_HEADER) + 1, Len(b) - 1)]

\* bytes.decode("utf-8") of the decompressed content: UnicodeDecodeError (a ValueError)
\* for a byte that is no ASCII character
decode_utf8(d) ==
    IF d.raised # "none" THEN d
    ELSE IF \E i \in 1..Len(d.val) : d.val[i] >= 128
    THEN [raised |-> "ValueError", val |-> << >>]
    ELSE d

\* store.read_and_deflate_chunk
read_and_deflate_chunk(f) == decode_utf8(decompress(f))

\* common_kit.touch_file
touch_file == << >>

\* save_custom_index without the write of line 762
save_custom_index_nowrite(records) == << >>

\* save_custom_index: the content of the file after the call
save_custom_index(records) == pack_content(json_dumps(records))

\* the except clause without zlib.error
caught_value_error_only == {"ValueError"}

\* load_custom_index, line 748: except (ValueError, zlib.error)
caught_by_load_custom_index == {"ValueError", "zlib.error"}

\* load_custom_index, lines 744-750: the try block on the content f, chunk being the
\* outcome of store.read_and_deflate_chunk
load_custom_index_chunk(f, chunk) ==
    IF chunk.raised \in caught_by_load_custom_index
    THEN [present |-> TRUE, file |-> f, err |-> "none", result |-> EmptyMapping]
    ELSE IF chunk.raised # "none"
    THEN [present |-> TRUE, file |-> f, err |-> chunk.raised, result |-> EmptyMapping]
    ELSE IF json_loads(chunk.val).raised \in caught_by_load_custom_index
    THEN [present |-> TRUE, file |-> f, err |-> "none", result |-> EmptyMapping]
    ELSE [present |-> TRUE, file |-> f, err |-> json_loads(chunk.val).raised,
          result |-> json_loads(chunk.val).val]

\* load_custom_index, lines 744-750, on the content f
load_custom_index_open(f) == load_custom_index_chunk(f, read_and_deflate_chunk(f))

\* load_custom_index
load_custom_index(exists, f) ==
    IF ~exists THEN load_custom_index_open(save_custom_index(EmptyMapping))
    ELSE load_custom_index_open(f)

\* the prefixes of b that lack at least one byte
Truncations(b) == {SubSeq(b, 1, n) : n \in 0..(Len(b) - 1)}

\* contents of an auxiliary file: written by save_custom_index, empty or truncated, not
\* a compressed stream, a stream of a text that is no JSON, a stream of bytes that are
\* no text
CustomFiles ==
    {save_custom_index(d) : d \in JsonDocs}
    \cup UNION {Truncations(save_custom_index(d)) : d \in JsonDocs}
    \cup {<<1, 2, 3>>, pack_content(<<123>>), pack_content(<<255>>), pack_content(<< >>)}

InitCustom ==
    /\ last = NoCall
    /\ manager = NoManager
    /\ callers = NoCallers
    /\ \/ present = FALSE /\ file = << >>
       \/ present = TRUE /\ file \in CustomFiles

LoadCustom ==
    /\ Idle
    /\ \E r \in {load_custom_index(present, file)} :
           /\ present' = r.present
           /\ UNCHANGED <<manager, callers>>
           /\ file' = r.file
           /\ last' = [Call("load_custom") EXCEPT !.err = r.err, !.out = <<r.result>>]

SaveCustom ==
    \E records \in JsonDocs :
        /\ Idle
        /\ present' = TRUE
        /\ UNCHANGED <<manager, callers>>
        /\ file' = save_custom_index(records)
        /\ last' = [Call("save_custom") EXCEPT !.list = <<records>>]

NextCustom ==
    \/ LoadCustom
    \/ SaveCustom
    \/ Return

SpecCustom == InitCustom /\ [][NextCustom]_vars

\* the content is not what save_custom_index writes for any document
IsCorrupted(f) == \A d \in JsonDocs : f # save_custom_index(d)

(***************************************************************************)
(* C17: load_custom_index on an existing auxiliary file whose content is   *)
(* empty, truncated, not decompressible or not valid JSON returns an empty *)
(* mapping and does not raise.                                             *)
(***************************************************************************)
C17_CorruptedLoadsEmptyMapping ==
    (last.op = "load_custom" /\ last.prePresent /\ IsCorrupted(last.pre))
    => (last.err = "none" /\ last.out = <<EmptyMapping>>)

\* a file that lost its last byte
C17_Witness ==
    /\ last.op = "load_custom" /\ last.prePresent
    /\ last.pre \in Truncations(save_custom_index(OneKeyMapping))
    /\ Len(last.pre) = Len(save_custom_index(OneKeyMapping)) - 1
    /\ last.err = "none" /\ last.out = <<EmptyMapping>>

(***************************************************************************)
(* C18: load_custom_index on a path without a file creates the file,       *)
(* initialises it to the compressed JSON text of an empty mapping and      *)
(* returns an empty mapping; the file exists afterwards and a second       *)
(* load_custom_index returns an empty mapping again.                       *)
(***************************************************************************)
C18_AbsentLoadCreatesEmptyMapping ==
    (last.op = "load_custom" /\ ~last.prePresent)
    => (/\ present
        /\ file = ZLIB_HEADER \o <<123, 125>> \o <<248>>
        /\ decompress(file).val = json_dumps(EmptyMapping)
        /\ last.err = "none" /\ last.out = <<EmptyMapping>>
        /\ load_custom_index(present, file)
              = [present |-> TRUE, file |-> file, err |-> "none", result |-> EmptyMapping])

C18_Witness ==
    /\ last.op = "load_custom" /\ ~last.prePresent
    /\ present /\ Len(file) = 5
    /\ last.out = <<EmptyMapping>>

(***************************************************************************)
(* Optimization parameters of the trace collector                          *)
(* perun/collect/trace/optimizations/structs.py                            *)
(***************************************************************************)
\* the longest list of user-supplied parameters
MaxParams == 2

\* str values, as sequences of character codes
Str_0 == <<48>>
Str_1 == <<49>>
Str_7 == <<55>>
Str_minus1 == <<45, 49>>
Str_1_5 == <<49, 46, 53>>
Str_nan == <<110, 97, 110>>
Str_x == <<120>>
Str_empty == <<  >>
Str_color == <<99, 111, 108, 111, 114>>
Str_soft == <<115, 111, 102, 116>>
Str_semistrict == <<115, 101, 109, 105, 115, 116, 114, 105, 99, 116>>
Str_strict == <<115, 116, 114, 105, 99, 116>>
Str_match == <<109, 97, 116, 99, 104>>
Str_bottom_up == <<98, 111, 116, 116, 111, 109, 45, 117, 112>>
Str_top_down == <<116, 111, 112, 45, 100, 111, 119, 110>>
Str_zero == <<122, 101, 114, 111>>
Str_constant == <<99, 111, 110, 115, 116, 97, 110, 116>>
Str_linear == <<108, 105, 110, 101, 97, 114>>
Str_quadratic == <<113, 117, 97, 100, 114, 97, 116, 105, 99>>
Str_cubic == <<99, 117, 98, 105, 99>>
Str_quartic == <<113, 117, 97, 114, 116, 105, 99>>
Str_generic == <<103, 101, 110, 101, 114, 105, 99>>

\* Python values: a type and a payload
PyNone == [t |-> "None", v |-> << >>]
PyBool(b) == [t |-> "bool", v |-> IF b THEN <<1>> ELSE <<0>>]
PyInt(n) == [t |-> "int", v |-> <<n>>]
\* a float, in tenths
PyFloat(tenths) == [t |-> "float", v |-> <<tenths>>]
PyNaN == [t |-> "float_nan", v |-> << >>]
PyStr(s) == [t |-> "str", v |-> s]
PyEnum(enumclass, s) == [t |-> enumclass, v |-> s]

\* the truth value of a Python value
truthy(x) ==
    CASE x.t = "None" -> FALSE
      [] x.t \in {"bool", "int", "float"} -> x.v[1] # 0
      [] x.t = "str" -> x.v # << >>
      [] OTHER -> TRUE

\* structs.py:25-30, 41-46, 56-61, 80-85  supported()
supported(enumclass) ==
    CASE enumclass = "DiffCfgMode" -> <<Str_color, Str_soft, Str_semistrict, Str_strict>>
      [] enumclass = "CGShapingMode" -> <<Str_match, Str_bottom_up, Str_top_down>>
      [] enumclass = "ThresholdMode" -> <<Str_soft, Str_strict>>
      [] enumclass = "Complexity" -> <<Str_zero, Str_constant, Str_linear, Str_quadratic,
                                       Str_cubic, Str_quartic, Str_generic>>

IsDigits(s) == s # << >> /\ \A i \in 1..Len(s) : s[i] \in 48..57

\* int(str): an optional sign and decimal digits, ValueError otherwise
python_int(s) ==
    IF IsDigits(s) THEN [raised |-> "none", val |-> PyInt(DecValue(s))]
    ELSE IF Len(s) > 1 /\ s[1] \in {43, 45} /\ IsDigits(Tail(s))
    THEN [raised |-> "none",
          val |-> PyInt(IF s[1] = 45 THEN 0 - DecValue(Tail(s)) ELSE DecValue(Tail(s)))]
    ELSE [raised |-> "ValueError", val |-> PyNone]

\* the digits of a float literal without sign: digits, or digits "." digit
float_tenths(u) ==
    IF IsDigits(u) THEN [raised |-> "none", val |-> PyFloat(10 * DecValue(u))]
    ELSE IF Len(u) > 2 /\ u[Len(u) - 1] = 46 /\ u[Len(u)] \in 48..57
            /\ IsDigits(SubSeq(u, 1, Len(u) - 2))
    THEN [raised |-> "none",
          val |-> PyFloat(10 * DecValue(SubSeq(u, 1, Len(u) - 2)) + (u[Len(u)] - 48))]
    ELSE [raised |-> "ValueError", val |-> PyNone]

negated(r) == IF r.raised = "none" THEN [r EXCEPT !.val = PyFloat(0 - r.val.v[1])] ELSE r

\* float(str): "nan", or an optional sign and a decimal literal, ValueError otherwise
python_float(s) ==
    IF s = Str_nan THEN [raised |-> "none", val |-> PyNaN]
    ELSE IF s # << >> /\ s[1] = 45 THEN negated(float_tenths(Tail(s)))
    ELSE IF s # << >> /\ s[1] = 43 THEN float_tenths(Tail(s))
    ELSE float_tenths(s)

\* structs.py:416, 431  except ValueError
caught_by_validate(raised) == raised = "ValueError"

\* the outcome of a validator whose conversion gave r: the value it returns, or what it raises
validated_number(r, accepted) ==
    IF r.raised # "none"
    THEN IF caught_by_validate(r.raised) THEN [raised |-> "none", val |-> PyNone] ELSE r
    ELSE IF accepted THEN r ELSE [raised |-> "none", val |-> PyNone]

\* structs.py:394-402  _validate_bool
validate_bool(value) ==
    IF value \in {Str_0, Str_1}
    THEN [raised |-> "none", val |-> PyBool(python_int(value).val.v[1] # 0)]
    ELSE [raised |-> "none", val |-> PyNone]

uint_of(r) == validated_number(r, r.raised = "none" /\ r.val.v[1] >= 0)

\* structs.py:405-417  _validate_uint
validate_uint(value) == uint_of(python_int(value))

ufloat_of(r) == validated_number(r, r.raised = "none" /\ r.val.t = "float" /\ r.val.v[1] > 0)

\* structs.py:420-432  _validate_ufloat
validate_ufloat(value) == ufloat_of(python_float(value))

\* structs.py:446-454  _validate_enum
validate_enum(enumclass, value) ==
    IF \E i \in 1..Len(supported(enumclass)) : supported(enumclass)[i] = value
    THEN [raised |-> "none", val |-> PyEnum(enumclass, value)]
    ELSE [raised |-> "none", val |-> PyNone]

\* structs.py:154  lambda x: x
validate_identity(value) == [raised |-> "none", val |-> PyStr(value)]

\* structs.py:127-221  __init__: the default value of every parameter; the two list-valued
\* parameters SOURCE_FILES and SOURCE_DIRS, validated against the file system, are left out
DefaultValues ==
    [DIFF_VERSION |-> PyNone,
     DIFF_KEEP_LEAF |-> PyBool(FALSE),
     DIFF_INSPECT_ALL |-> PyBool(TRUE),
     DIFF_CG_MODE |-> PyEnum("DiffCfgMode", Str_semistrict),
     STATIC_COMPLEXITY |-> PyEnum("Complexity", Str_constant),
     STATIC_KEEP_TOP |-> PyInt(1),
     CG_SHAPING_MODE |-> PyEnum("CGShapingMode", Str_match),
     CG_PROJ_LEVELS |-> PyInt(1),
     CG_PROJ_KEEP_LEAF |-> PyBool(FALSE),
     DYNSAMPLE_STEP |-> PyInt(2),
     DYNSAMPLE_THRESHOLD |-> PyInt(10000),
     PROBING_THRESHOLD |-> PyInt(100000),
     PROBING_REATTACH |-> PyBool(FALSE),
     TIMEDSAMPLE_FREQ |-> PyInt(1),
     DYNBASE_SOFT_THRESHOLD |-> PyInt(10000),
     DYNBASE_HARD_THRESHOLD |-> PyInt(10000 * 100),
     THRESHOLD_MODE |-> PyEnum("ThresholdMode", Str_soft)]

Parameters == DOMAIN DefaultValues

\* structs.py:152-221  the "validate" of every parameter
validate(param, value) ==
    CASE param = "DIFF_VERSION" -> validate_identity(value)
      [] param \in {"DIFF_KEEP_LEAF", "DIFF_INSPECT_ALL", "CG_PROJ_KEEP_LEAF",
                    "PROBING_REATTACH"} -> validate_bool(value)
      [] param = "DIFF_CG_MODE" -> validate_enum("DiffCfgMode", value)
      [] param = "STATIC_COMPLEXITY" -> validate_enum("Complexity", value)
      [] param = "CG_SHAPING_MODE" -> validate_enum("CGShapingMode", value)
      [] param = "THRESHOLD_MODE" -> validate_enum("ThresholdMode", value)
      [] param = "DYNSAMPLE_STEP" -> validate_ufloat(value)
      [] OTHER -> validate_uint(value)

\* structs.py:127-221  a new ParametersManager
ParametersManager == [cli_params |-> << >>, param_map |-> DefaultValues]

\* the truth value of the validated value decides, not its being None
add_validated_if_true(m, param, r) ==
    IF r.raised # "none" THEN [manager |-> m, raised |-> r.raised, returned |-> PyNone]
    ELSE IF truthy(r.val)
    THEN [manager |-> [m EXCEPT !.cli_params = Append(@, <<param, r.val>>)],
          raised |-> "none", returned |-> r.val]
    ELSE [manager |-> m, raised |-> "none", returned |-> PyNone]

\* structs.py:250-253  a validated value that is not None is appended and returned
add_validated(m, param, r) ==
    IF r.raised # "none" THEN [manager |-> m, raised |-> r.raised, returned |-> PyNone]
    ELSE IF r.val # PyNone
    THEN [manager |-> [m EXCEPT !.cli_params = Append(@, <<param, r.val>>)],
          raised |-> "none", returned |-> r.val]
    ELSE [manager |-> m, raised |-> "none", returned |-> PyNone]

\* structs.py:240-253  add_cli_parameter
add_cli_parameter(m, param, value) == add_validated(m, param, validate(param, value))

\* structs.py:232-238  __setitem__
setitem(pm, key, value) == [pm EXCEPT ![key] = value]

\* structs.py:290-294, 332-333  every pair of the list is set, in its order
RECURSIVE set_all(_, _)
set_all(pm, ps) ==
    IF ps = << >> THEN pm ELSE set_all(setitem(pm, ps[1][1], ps[1][2]), Tail(ps))

\* structs.py:271-275  the mode parameters
modes == {"DIFF_CG_MODE", "CG_SHAPING_MODE", "THRESHOLD_MODE"}

IsMode(p) == p[1] \in modes
IsNoMode(p) == p[1] \notin modes

\* structs.py:276-278  common_kit.partition_list
partition_list(ps) == [cli_modes |-> SelectSeq(ps, IsMode), cli_params |-> SelectSeq(ps, IsNoMode)]

\* collect_structs.Pipeline
Pipelines == {"basic", "advanced"}

\* structs.py:318-333  _infer_modes
infer_modes(pm, selected_pipeline, user_modes) ==
    set_all(setitem(setitem(setitem(pm,
                "DIFF_CG_MODE", PyEnum("DiffCfgMode", Str_color)),
                "CG_SHAPING_MODE", PyEnum("CGShapingMode", Str_top_down)),
                "THRESHOLD_MODE", IF selected_pipeline = "basic"
                                  THEN PyEnum("ThresholdMode", Str_strict)
                                  ELSE PyEnum("ThresholdMode", Str_soft)),
            user_modes)

set_thresholds(pm, base) ==
    setitem(setitem(setitem(pm,
        "DYNSAMPLE_THRESHOLD", PyInt(base)),
        "DYNBASE_SOFT_THRESHOLD", PyInt(base)),
        "DYNBASE_HARD_THRESHOLD", PyInt(base * 100))

\* structs.py:348-359  _infer_thresholds
infer_thresholds(pm) ==
    set_thresholds(pm, IF pm["THRESHOLD_MODE"] = PyEnum("ThresholdMode", Str_strict)
                       THEN 1000 ELSE 10000)

\* structs.py:361-372  _infer_dynamic_probing: 100000 * 0.2 is the float 20000.0
infer_dynamic_probing(pm, cli_params) ==
    IF truthy(pm["PROBING_REATTACH"])
       /\ ~(\E i \in 1..Len(cli_params) : cli_params[i][1] = "PROBING_THRESHOLD")
    THEN setitem(pm, "PROBING_THRESHOLD", PyFloat(200000))
    ELSE pm

infer_partitioned(pm, selected_pipeline, parts) ==
    infer_dynamic_probing(
        set_all(infer_thresholds(infer_modes(pm, selected_pipeline, parts.cli_modes)),
                parts.cli_params),
        parts.cli_params)

\* structs.py:255-300  infer_params without a call graph
infer_params(m, pipeline) ==
    [m EXCEPT !.param_map = infer_partitioned(@, pipeline, partition_list(m.cli_params))]

\* the names and the values of the command line
CliNames == {"DIFF_VERSION", "PROBING_REATTACH", "PROBING_THRESHOLD", "DYNSAMPLE_STEP",
             "THRESHOLD_MODE"}
CliValues == {Str_0, Str_1, Str_7, Str_minus1, Str_1_5, Str_nan, Str_x, Str_empty,
              Str_soft, Str_strict}

InitParams ==
    /\ present = FALSE
    /\ file = << >>
    /\ last = NoCall
    /\ manager = ParametersManager
    /\ callers = NoCallers

AddCliParameter ==
    \E name \in CliNames, value \in CliValues :
        /\ Idle
        /\ manager # NoManager
        /\ Len(manager.cli_params) < MaxParams
        /\ \E r \in {add_cli_parameter(manager, name, value)} :
               /\ manager' = r.manager
               /\ last' = [Call("add_cli_parameter") EXCEPT
                              !.entry = [name |-> name, value |-> value],
                              !.list = <<manager>>,
                              !.err = r.raised,
                              !.out = <<r.returned>>]
        /\ UNCHANGED <<present, file, callers>>

InferParams ==
    \E pipeline \in Pipelines :
        /\ Idle
        /\ manager # NoManager
        /\ manager' = infer_params(manager, pipeline)
        /\ last' = [Call("infer_params") EXCEPT !.keys = <<pipeline>>, !.list = <<manager>>]
        /\ UNCHANGED <<present, file, callers>>

NextParams ==
    \/ AddCliParameter
    \/ InferParams
    \/ Return

SpecParams == InitParams /\ [][NextParams]_vars

\* what each kind of parameter accepts of the values of the command line, and as what
AcceptedBools == {<<Str_0, PyBool(FALSE)>>, <<Str_1, PyBool(TRUE)>>}
AcceptedUints == {<<Str_0, PyInt(0)>>, <<Str_1, PyInt(1)>>, <<Str_7, PyInt(7)>>}
AcceptedUfloats == {<<Str_1, PyFloat(10)>>, <<Str_7, PyFloat(70)>>, <<Str_1_5, PyFloat(15)>>}
AcceptedThresholdModes ==
    {<<Str_soft, PyEnum("ThresholdMode", Str_soft)>>,
     <<Str_strict, PyEnum("ThresholdMode", Str_strict)>>}

Accepted(name) ==
    CASE name = "DIFF_VERSION" -> {<<v, PyStr(v)>> : v \in CliValues}
      [] name = "PROBING_REATTACH" -> AcceptedBools
      [] name = "PROBING_THRESHOLD" -> AcceptedUints
      [] name = "DYNSAMPLE_STEP" -> AcceptedUfloats
      [] name = "THRESHOLD_MODE" -> AcceptedThresholdModes

AcceptedAs(name, value) == {p \in Accepted(name) : p[1] = value}

IsAdd == last.op = "add_cli_parameter"

\* the manager before the call
Before == last.list[1]

Dropped ==
    /\ last.err = "none"
    /\ last.out = <<PyNone>>
    /\ manager = Before
    /\ \A pipeline \in Pipelines :
           infer_params(manager, pipeline).param_map[last.entry.name]
               = infer_params(Before, pipeline).param_map[last.entry.name]

RecordedAs(validated) ==
    /\ last.err = "none"
    /\ last.out = <<validated>>
    /\ manager.cli_params = Append(Before.cli_params, <<last.entry.name, validated>>)
    /\ manager.param_map = Before.param_map

\* C20: add_cli_parameter with a value that fails the validation of the parameter returns
\* None, raises nothing and leaves cli_params and param_map as they were, so that
\* infer_params gives the parameter what it gives without the call; a value that passes
\* the validation is returned and appended to cli_params as validated, False and 0 included
C20_InvalidDroppedValidRecorded ==
    IsAdd =>
        IF AcceptedAs(last.entry.name, last.entry.value) = {}
        THEN Dropped
        ELSE \A p \in AcceptedAs(last.entry.name, last.entry.value) : RecordedAs(p[2])

\* a 0 is recorded after a recorded False
C20_Witness ==
    /\ IsAdd
    /\ Before.cli_params = <<<<"PROBING_REATTACH", PyBool(FALSE)>>>>
    /\ last.entry = [name |-> "PROBING_THRESHOLD", value |-> Str_0]
    /\ manager.cli_params = <<<<"PROBING_REATTACH", PyBool(FALSE)>>,
                              <<"PROBING_THRESHOLD", PyInt(0)>>>>

(***************************************************************************)
(* C22: after remove_from_index with a non-empty collection of keys the    *)
(* bytes of the file from byte 12 on are the encodings of the entries that *)
(* were walked and not removed, in the order of the walk, one after the    *)
(* other, and the file ends after the last of them; with an empty          *)
(* collection the file is left as it was.                                  *)
(***************************************************************************)
\* the record of the entry e was removed: a removed entry starts where e starts
IsRemoved(e, removed) == \E j \in 1..Len(removed) : removed[j].offset = e.offset

RECURSIVE NotRemoved(_, _)
NotRemoved(es, removed) ==
    IF es = << >> THEN << >>
    ELSE IF IsRemoved(Head(es), removed) THEN NotRemoved(Tail(es), removed)
    ELSE <<Head(es)>> \o NotRemoved(Tail(es), removed)

Body(f) == SubSeq(f, INDEX_ENTRIES_START_OFFSET + 1, Len(f))

C22_RemoveCompactsBody ==
    (/\ last.op = "remove" /\ last.err = "none" /\ last.prePresent
     /\ WellFormed(last.pre))
    => IF Len(last.keys) = 0 THEN file = last.pre
       ELSE Body(file) = write_entries(NotRemoved(Walked(last.pre), last.out))

\* the first of two records was removed and the file ends after the second
C22_Witness ==
    /\ last.op = "remove" /\ last.err = "none" /\ last.prePresent
    /\ WellFormed(last.pre) /\ DeclaredVersion(last.pre) = INDEX_VERSION
    /\ Len(Walked(last.pre)) = 2 /\ Len(last.out) = 1
    /\ last.out[1].offset = INDEX_ENTRIES_START_OFFSET
    /\ Body(file) = write_to(Walked(last.pre)[2])
    /\ Len(file) < Len(last.pre)

(***************************************************************************)
(* The reader of one record: ExtendedIndexEntry.read_from at the position  *)
(* of the handle, with the version that walk_index read from the header    *)
(***************************************************************************)
\* entries whose extended fields are or are not those of the profile that the object
\* store holds under their checksum, and entries whose profile the store does not hold
ReaderEntries ==
    {ExtendedIndexEntry(Time1, c, PathA, -1, prof) :
        c \in {Checksum1, Checksum2, ChecksumNone}, prof \in {Profile1, Profile2}}

ReaderShapes ==
    {sh \in [v : {SlowLorris, FastSloth}, es : SeqsUpTo(ReaderEntries, MaxRecords)] :
        Len(sh.es) > 0}

ReaderFile(sh) == Header(INDEX_MAGIC_PREFIX, sh.v, Len(sh.es)) \o write_records(sh.v, sh.es)

InitReader ==
    /\ present = TRUE
    /\ file \in {ReaderFile(sh) : sh \in ReaderShapes}
    /\ last = NoCall
    /\ manager = NoManager
    /\ callers = NoCallers

\* the outcome r of a read_from at start
ReadFrom(start, r) ==
    /\ last' = [Call("read_from") EXCEPT !.list = <<start>>,
                   !.err = IF r.ok THEN "none" ELSE "decode",
                   !.out = IF r.ok THEN <<r.val>> ELSE << >>,
                   !.at = r.pos]
    /\ UNCHANGED <<present, file, manager, callers>>

\* the first record is read after the header
ReadFirst ==
    /\ Idle
    /\ \E r \in {entry_constructor_read_from(file, INDEX_ENTRIES_START_OFFSET,
                                              DeclaredVersion(file))} :
           ReadFrom(INDEX_ENTRIES_START_OFFSET, r)

\* the next record is read where the previous read ended
ReadNext ==
    /\ last.op = "read_from" /\ last.err = "none" /\ last.at < Len(file)
    /\ \E r \in {entry_constructor_read_from(file, last.at, DeclaredVersion(file))} :
           ReadFrom(last.at, r)

NextReader ==
    \/ ReadFirst
    \/ ReadNext
    \/ Return

SpecReader == InitReader /\ [][NextReader]_vars

\* the position of the i-th record of the file of the shape sh
StartOf(sh, i) == INDEX_ENTRIES_START_OFFSET + Len(write_records(sh.v, SubSeq(sh.es, 1, i - 1)))

\* the last read decoded the generation-1 record of x at start and completed it from the
\* profile that the object store holds under its checksum, or failed for want of it
Backfilled(x, start) ==
    IF load_profile_from_file(x.checksum).ok
    THEN /\ last.err = "none"
         /\ last.out = <<RegisteredEntry(x.time, x.checksum, x.path, start)>>
         /\ last.at = start + Len(Basic_write_to(x))
    ELSE last.err # "none"

\* the last read decoded the generation-1 prefix, the four strings and the list of the
\* record of x at start
ReadAsStored(x, start) ==
    /\ last.err = "none"
    /\ last.out = <<[x EXCEPT !.offset = start]>>
    /\ last.at = start + Len(Extended_write_to(x))

\* the shapes of the file and the records of them that start where the last read started
ReadRecords ==
    {p \in ReaderShapes \X (1..MaxRecords) :
        /\ p[1].v = DeclaredVersion(file) /\ p[2] <= Len(p[1].es)
        /\ StartOf(p[1], p[2]) = last.list[1]
        /\ ReaderFile(p[1]) = file}

(***************************************************************************)
(* C23, as claimed: read_from decodes the generation-1 record and          *)
(* backfills the extended fields from the stored profile exactly when the  *)
(* declared version of the file is newer than generation 2, and otherwise  *)
(* reads the generation-1 prefix, the four strings and the list.           *)
(***************************************************************************)
C23_BackfillsWhenNewer ==
    last.op = "read_from"
    => \A p \in ReadRecords :
           IF p[1].v > FastSloth THEN Backfilled(p[1].es[p[2]], last.list[1])
           ELSE ReadAsStored(p[1].es[p[2]], last.list[1])

(***************************************************************************)
(* C23, amended: read_from decodes the generation-1 record and backfills   *)
(* the extended fields from the stored profile exactly when the declared   *)
(* version of the file is older than generation 2; when it is the current  *)
(* version it reads the generation-1 prefix, the four strings and the      *)
(* list.                                                                   *)
(***************************************************************************)
C23_BackfillsWhenOlder ==
    last.op = "read_from"
    => \A p \in ReadRecords :
           IF p[1].v < FastSloth THEN Backfilled(p[1].es[p[2]], last.list[1])
           ELSE ReadAsStored(p[1].es[p[2]], last.list[1])

\* the second record of a file of version 1 was written from an entry with other
\* extended fields than those of the stored profile, and is read with the stored ones
C23_Witness ==
    /\ last.op = "read_from" /\ last.err = "none"
    /\ DeclaredVersion(file) = SlowLorris
    /\ last.list[1] > INDEX_ENTRIES_START_OFFSET
    /\ last.out[1].checksum = Checksum1
    /\ last.out[1].type = Profile1.header.type
    /\ \E p \in ReadRecords : p[1].es[p[2]].type = Profile2.header.type

(***************************************************************************)
(* C25: after a successful insert that is not a duplicate, into a          *)
(* well-formed file of declared version 1 or 2, walk_index yields the      *)
(* entries that it yielded before the insert, with the same time, checksum *)
(* and path and in the same order, and the inserted entry among them, and  *)
(* no other entry.                                                         *)
(***************************************************************************)
\* time, checksum and path of the entries
Identities(es) == [i \in 1..Len(es) |-> <<es[i].time, es[i].checksum, es[i].path>>]

\* the sequence es with x after its first p elements
WithInserted(es, x, p) == SubSeq(es, 1, p) \o <<x>> \o SubSeq(es, p + 1, Len(es))

IsInsert ==
    /\ last.op = "write" /\ last.err = "none" /\ ~last.registered
    /\ last.prePresent /\ WellFormed(last.pre)

C25_InsertKeepsWalkedEntries ==
    IsInsert
    => (/\ walk_index(file).err = "none"
        /\ \E p \in 0..Len(Walked(last.pre)) :
               Identities(Walked(file))
                   = Identities(WithInserted(Walked(last.pre), last.entry, p)))

\* the same, for files that declare the current version
C25_InsertKeepsWalkedEntriesOfCurrent ==
    (IsInsert /\ DeclaredVersion(last.pre) = INDEX_VERSION)
    => (/\ walk_index(file).err = "none"
        /\ \E p \in 0..Len(Walked(last.pre)) :
               Identities(Walked(file))
                   = Identities(WithInserted(Walked(last.pre), last.entry, p)))

(***************************************************************************)
(* Registering and deregistering: the entry that was just inserted is      *)
(* removed by its checksum                                                 *)
(***************************************************************************)
\* remove_from_index with the checksum of the entry of the last insert as its only key;
\* the file before the insert is kept in the history
Deregister ==
    /\ last.op = "write" /\ last.err = "none" /\ present
    /\ \E r \in {remove_from_index(file, <<last.entry.checksum>>)} :
           /\ file' = r.file
           /\ last' = [last EXCEPT !.op = "deregister", !.keys = <<last.entry.checksum>>,
                          !.err = r.err, !.out = r.removed, !.notfound = r.notfound]
    /\ UNCHANGED <<present, manager, callers>>

NextRegister ==
    \/ WriteEntry
    \/ Deregister
    \/ Remove
    \/ Return

SpecRegister == Init /\ [][NextRegister]_vars

HasChecksum(f, c) == \E i \in 1..Len(Walked(f)) : Walked(f)[i].checksum = c

\* an entry without pre-computed offset was inserted, not as a duplicate, into a
\* well-formed file of the current version that held no record of its checksum, and
\* was then removed by its checksum
IsRegisteredThenDeregistered ==
    /\ last.op = "deregister" /\ ~last.registered /\ last.entry.offset = -1
    /\ last.prePresent /\ WellFormed(last.pre)
    /\ DeclaredVersion(last.pre) = INDEX_VERSION
    /\ ~HasChecksum(last.pre, last.entry.checksum)

(***************************************************************************)
(* C26: on a well-formed file of version 2 that holds no record of         *)
(* checksum c, the insert of an entry of checksum c (offset -1, not a      *)
(* duplicate) followed by the removal with the single key c leaves the     *)
(* file byte-identical to what it was before the insert.                   *)
(***************************************************************************)
C26_RegisterDeregisterRestores ==
    IsRegisteredThenDeregistered => (last.err = "none" /\ file = last.pre)

\* the entry was inserted before a record of another checksum and removed again
C26_Witness ==
    /\ IsRegisteredThenDeregistered
    /\ Len(Walked(last.pre)) >= 1
    /\ Len(last.out) = 1
    /\ last.out[1].offset = INDEX_ENTRIES_START_OFFSET
    /\ file = last.pre

(***************************************************************************)
(* The list of a minor version, asked for twice                            *)
(***************************************************************************)
\* get_profile_list_for_minor once more, after a call that returned; the history keeps
\* the list of the first call
GetProfileListAgain ==
    /\ last.op = "get_list" /\ last.err = "none" /\ present
    /\ \E r \in {get_profile_list_for_minor(file)} :
           /\ file' = r.file
           /\ last' = [Call("get_list_again") EXCEPT !.list = last.out,
                          !.err = r.err, !.out = r.result]
    /\ UNCHANGED <<present, manager, callers>>

NextProfileList ==
    \/ GetProfileList
    \/ GetProfileListAgain
    \/ WriteEntry
    \/ Return

SpecProfileList == Init /\ [][NextProfileList]_vars

\* the same entries but for the offsets
SameButOffsets(es, fs) ==
    /\ Len(es) = Len(fs)
    /\ \A i \in 1..Len(es) : entry_eq(es[i], [fs[i] EXCEPT !.offset = es[i].offset])

(***************************************************************************)
(* C27: get_profile_list_for_minor on a well-formed file of declared       *)
(* version 1 or 2 leaves a well-formed file that declares the current      *)
(* version with an entry_count equal to the number of entries returned; a  *)
(* file that declared the current version is left byte-identical; a second *)
(* call returns the entries of the first (time, checksum, path and         *)
(* extended fields) in the same order.                                     *)
(***************************************************************************)
C27_ProfileListIdempotent ==
    (/\ last.op \in {"get_list", "get_list_again"}
     /\ last.prePresent /\ WellFormed(last.pre))
    => (/\ last.err = "none"
        /\ WellFormed(file)
        /\ DeclaredVersion(file) = INDEX_VERSION
        /\ DeclaredCount(file) = Len(last.out)
        /\ DeclaredVersion(last.pre) = INDEX_VERSION => file = last.pre
        /\ last.op = "get_list_again" => SameButOffsets(last.out, last.list))

\* the second call on a file of two records that the first call rewrote: the records
\* are longer than they were, so the second entry is found at another offset
C27_Witness ==
    /\ last.op = "get_list_again" /\ last.err = "none"
    /\ Len(last.out) = 2 /\ SameButOffsets(last.out, last.list)
    /\ last.list[2].offset < last.out[2].offset
    /\ file = last.pre

(***************************************************************************)
(* Saving over an existing auxiliary file and loading what was saved.      *)
(***************************************************************************)
\* save_custom_index on a handle that keeps the previous content (open "r+b")
save_custom_index_inplace(f, records) == write_at(f, 0, save_custom_index(records))

\* save_custom_index, lines 760-762, on the previous content f of the path: open "w+b"
\* truncates the file to zero length, the write starts at byte 0
save_custom_index_over(f, records) ==
    write_at(truncate(f, 0), 0, save_custom_index(records))

SaveOver ==
    \E records \in JsonDocs :
        /\ Idle
        /\ present' = TRUE
        /\ UNCHANGED <<manager, callers>>
        /\ file' = save_custom_index_over(IF present THEN file ELSE << >>, records)
        /\ last' = [Call("save_over") EXCEPT !.list = <<records>>]

\* load_custom_index as the call that follows a save_custom_index to the same path; the
\* history keeps the saved records and the content of before the save
LoadSaved ==
    /\ last.op = "save_over"
    /\ \E r \in {load_custom_index(present, file)} :
           /\ present' = r.present
           /\ UNCHANGED <<manager, callers>>
           /\ file' = r.file
           /\ last' = [Call("load_saved") EXCEPT !.list = last.list, !.pre = last.pre,
                          !.prePresent = last.prePresent, !.err = r.err,
                          !.out = <<r.result>>]

NextSaveLoad ==
    \/ SaveOver
    \/ LoadSaved
    \/ LoadCustom
    \/ Return

SpecSaveLoad == InitCustom /\ [][NextSaveLoad]_vars

MaxResources == 2

Key_a == PyStr(<<97>>)
Key_b == PyStr(<<98>>)
ResourceKeys == {Key_a, Key_b}
ResourceValues == {PyInt(1), PyBool(TRUE), PyStr(Str_x)}

Item(key, value) == [key |-> key, value |-> value]

Resources ==
    {<< >>}
    \cup {<<Item(k, v)>> : k \in ResourceKeys, v \in ResourceValues}
    \cup {<<Item(k[1], v[1]), Item(k[2], v[2])>> :
            k \in {<<Key_a, Key_b>>, <<Key_b, Key_a>>},
            v \in ResourceValues \X ResourceValues}

\* isinstance(value, numbers.Number): int, bool (a subclass of int) and float
is_number(value) == value.t \in {"int", "bool", "float", "float_nan"}

\* flattened_values for a value that is neither a dictionary nor a list
flattened_values(root_key, root_value) == <<Item(root_key, root_value)>>

\* all_items_of: the flattened items of the items of the resource, in order
RECURSIVE all_items_of(_)
all_items_of(resource) ==
    IF resource = << >> THEN << >>
    ELSE flattened_values(Head(resource).key, Head(resource).value)
            \o all_items_of(Tail(resource))

NoFields == [resource_fields |-> {}, exclude_fields |-> {}]

\* the body of the inner loop, lines 173-181, on one item
numerical_fields_item(st, key, value) ==
    IF ~is_number(value)
    THEN [resource_fields |-> st.resource_fields \ {key},
          exclude_fields |-> st.exclude_fields \cup {key}]
    ELSE IF value \notin st.exclude_fields
    THEN [st EXCEPT !.resource_fields = @ \cup {key}]
    ELSE st

RECURSIVE numerical_fields_items(_, _)
numerical_fields_items(st, items) ==
    IF items = << >> THEN st
    ELSE numerical_fields_items(
            numerical_fields_item(st, Head(items).key, Head(items).value), Tail(items))

\* the outer loop, lines 171-181, over the resources of the profile
RECURSIVE numerical_fields_loop(_, _)
numerical_fields_loop(st, resources) ==
    IF resources = << >> THEN st
    ELSE numerical_fields_loop(
            numerical_fields_items(st, all_items_of(Head(resources))), Tail(resources))

\* the sequences that hold every element of the set once: the orders in which a set
\* can be iterated
Enumerations(S) == {s \in SeqsUpTo(S, Cardinality(S)) :
                      Len(s) = Cardinality(S) /\ {s[i] : i \in 1..Len(s)} = S}

\* all_numerical_resource_fields_of: the keys it can yield, in the order of the yields
all_numerical_resource_fields_of(resources) ==
    Enumerations(numerical_fields_loop(NoFields, resources).resource_fields)

NumericalFields ==
    \E resources \in SeqsUpTo(Resources, MaxResources) :
        \E yielded \in all_numerical_resource_fields_of(resources) :
            /\ Idle
            /\ last' = [Call("numerical_fields") EXCEPT !.list = resources, !.out = yielded]
            /\ UNCHANGED <<present, file, manager, callers>>

NextFields ==
    \/ NumericalFields
    \/ Return

\* no index file takes part
InitFields ==
    /\ last = NoCall
    /\ manager = NoManager
    /\ callers = NoCallers
    /\ present = FALSE
    /\ file = << >>

SpecFields == InitFields /\ [][NextFields]_vars

\* the values the key takes in the resources
ValuesOf(resources, key) ==
    {resources[i][j].value : <<i, j>> \in
        {p \in (1..Len(resources)) \X (1..Cardinality(ResourceKeys)) :
            p[2] <= Len(resources[p[1]]) /\ resources[p[1]][p[2]].key = key}}

(***************************************************************************)
(* C29: all_numerical_resource_fields_of yields a key only if every        *)
(* occurrence of the key in the resources of the profile has a numeric     *)
(* value, whatever the order of the resources, and yields each key once.   *)
(***************************************************************************)
C29_YieldsOnlyAlwaysNumeric ==
    last.op = "numerical_fields"
    => /\ \A i \in 1..Len(last.out) :
              \A v \in ValuesOf(last.list, last.out[i]) : is_number(v)
       /\ \A i, j \in 1..Len(last.out) : last.out[i] = last.out[j] => i = j

\* the part that holds: a key whose occurrences are all numbers is yielded, and no key
\* is yielded twice
C29_YieldsNumericAtLastOccurrence ==
    last.op = "numerical_fields"
    => /\ \A k \in ResourceKeys :
              (\A v \in ValuesOf(last.list, k) : is_number(v)) /\ ValuesOf(last.list, k) # {}
              => \E i \in 1..Len(last.out) : last.out[i] = k
       /\ \A i, j \in 1..Len(last.out) : last.out[i] = last.out[j] => i = j

(***************************************************************************)
(* The table of resources (perun.view.tableof.run.create_table_from).  The *)
(* dataframe is the sequence of its rows, a row gives a string for each    *)
(* column; a rule of filter_by is a pair of a column and a string.         *)
(***************************************************************************)
\* most rules of filter_by
MaxRules == 3

Columns == {"a", "b"}
Cells == {Str_0, Str_1}

Row(a, b) == [a |-> a, b |-> b]

\* the dataframes that conversion_function returns
Dataframes ==
    { << >>,
      <<Row(Str_1, Str_0), Row(Str_0, Str_1)>>,
      <<Row(Str_1, Str_1), Row(Str_0, Str_0), Row(Str_1, Str_0), Row(Str_0, Str_1)>> }

FilterRules == Columns \X Cells

\* operator.itemgetter(0) of a rule
itemgetter0(rule) == rule[1]

\* the length of the run of rules at the head of the list whose key is k
RECURSIVE run_of(_, _)
run_of(rules, k) ==
    IF rules = << >> \/ itemgetter0(Head(rules)) # k THEN 0
    ELSE 1 + run_of(Tail(rules), k)

\* itertools.groupby(filter_by, operator.itemgetter(0)): a group is a run of consecutive
\* rules of the same key
RECURSIVE groupby(_)
groupby(rules) ==
    IF rules = << >> THEN << >>
    ELSE <<[key |-> itemgetter0(Head(rules)),
            rules |-> SubSeq(rules, 1, run_of(rules, itemgetter0(Head(rules))))]>>
            \o groupby(SubSeq(rules, run_of(rules, itemgetter0(Head(rules))) + 1, Len(rules)))

\* '@dataframe.get("key") in ["v1", "v2"]' on one row
term_holds(row, group) ==
    \E i \in 1..Len(group.rules) : row[group.key] = group.rules[i][2]

\* dataframe.query of the terms joined by " & "
RECURSIVE query(_, _)
query(dataframe, groups) ==
    IF dataframe = << >> THEN << >>
    ELSE (IF \A g \in 1..Len(groups) : term_holds(Head(dataframe), groups[g])
          THEN <<Head(dataframe)>> ELSE << >>) \o query(Tail(dataframe), groups)

\* dataframe.sort_values(sort_by): the rows in an order that does not decrease in the
\* column; rows of the same value in any order
sort_values(dataframe, sort_by) ==
    {s \in [1..Len(dataframe) -> {dataframe[i] : i \in 1..Len(dataframe)}] :
        /\ {s[i] : i \in 1..Len(s)} = {dataframe[i] : i \in 1..Len(dataframe)}
        /\ \A i \in 1..(Len(s) - 1) :
              s[i][sort_by] = s[i + 1][sort_by] \/ StrLess(s[i][sort_by], s[i + 1][sort_by])}

\* lines 84-90 on the sorted dataframe
filtered(dataframe, filter_by) ==
    IF filter_by = << >> THEN dataframe ELSE query(dataframe, groupby(filter_by))

\* create_table_from: the rows of the table, for headers that name every column
create_table_from(dataframe, sort_by, filter_by) ==
    IF sort_by = "None" THEN {filtered(dataframe, filter_by)}
    ELSE {filtered(s, filter_by) : s \in sort_values(dataframe, sort_by)}

CreateTable ==
    \E dataframe \in Dataframes, sort_by \in {"None", "a"},
       filter_by \in SeqsUpTo(FilterRules, MaxRules) :
        \E rows \in create_table_from(dataframe, sort_by, filter_by) :
            /\ Idle
            /\ last' = [Call("create_table") EXCEPT !.keys = filter_by, !.list = dataframe,
                           !.out = rows]
            /\ UNCHANGED <<present, file, manager, callers>>

NextTable ==
    \/ CreateTable
    \/ Return

SpecTable == InitFields /\ [][NextTable]_vars

Elements(s) == {s[i] : i \in 1..Len(s)}

\* the row has, for every key of the rules, a value that some rule of the key gives
Matches(row, rules) ==
    \A i \in 1..Len(rules) : \E j \in 1..Len(rules) :
        rules[j][1] = rules[i][1] /\ row[rules[i][1]] = rules[j][2]

\* the rules of one key follow each other in the list
Adjacent(rules) ==
    \A i, j \in 1..Len(rules) :
        (i < j /\ rules[i][1] = rules[j][1]) => \A m \in i..j : rules[m][1] = rules[i][1]

(***************************************************************************)
(* C30: create_table_from with a non-empty filter_by keeps exactly the     *)
(* rows that have, for every key of the list, a value equal to one of the  *)
(* values given for that key, whatever the order of the rules.             *)
(***************************************************************************)
C30_FilterKeepsMatchingRows ==
    (last.op = "create_table" /\ last.keys # << >>)
    => /\ Elements(last.out) = {row \in Elements(last.list) : Matches(row, last.keys)}
       /\ Len(last.out) = Cardinality(Elements(last.out))

\* the part that holds: the same when the rules of one key follow each other
C30_FilterKeepsMatchingRowsOfAdjacent ==
    (last.op = "create_table" /\ last.keys # << >> /\ Adjacent(last.keys))
    => /\ Elements(last.out) = {row \in Elements(last.list) : Matches(row, last.keys)}
       /\ Len(last.out) = Cardinality(Elements(last.out))

(***************************************************************************)
(* write_entry_to_index step by step.  Each caller has its own handle on   *)
(* the file and a frame with its local variables; a step is one group of   *)
(* seek/read/write calls on the handle, and the steps of the callers       *)
(* interleave freely.                                                      *)
(***************************************************************************)
Callers == {1, 2}

IdleFrame ==
    [pc |-> "idle", entry |-> NoEntry, pre |-> << >>, offset_in_file |-> -1,
     number_of_entries |-> 0, buffer |-> << >>, position |-> 0, overlapped |-> FALSE]

\* the call is between its open and its return
Active(frame) == frame.pc \notin {"idle", "done", "registered", "raised"}

\* entries handed to the calls
StepEntries == {EntryA1, EntryA2, EntryB1}

\* the files the calls start on: the empty index and one record of each generation
StepFiles ==
    {initialize_index_in_handle,
     write_list_of_entries(<<EntryA2>>),
     Header(INDEX_MAGIC_PREFIX, SlowLorris, 1) \o write_basic_entries(<<EntryA2>>)}

\* lines 433-455 on the outcome of the lookup
step_looked_up(f, frame, looked_up) ==
    IF looked_up.err = "none"
    THEN IF looked_up.entry.path = frame.entry.path
            /\ looked_up.entry.time = frame.entry.time
         THEN [file |-> f, frame |-> [frame EXCEPT !.pc = "registered"]]
         ELSE [file |-> f, frame |-> [frame EXCEPT !.pc = "modify_read",
                                         !.offset_in_file = looked_up.entry.offset]]
    ELSE IF looked_up.err = "notfound"
    THEN [file |-> f, frame |-> [frame EXCEPT !.pc = "modify_read",
                                    !.offset_in_file = Len(f)]]
    ELSE [file |-> f, frame |-> [frame EXCEPT !.pc = "raised"]]

\* lines 433-457: the position of the new record
step_lookup(f, frame) ==
    IF frame.entry.offset = -1
    THEN step_looked_up(f, frame, lookup_entry_within_index(f, PredInsert(frame.entry)))
    ELSE [file |-> f, frame |-> [frame EXCEPT !.pc = "modify_read",
                                    !.offset_in_file = frame.entry.offset]]

\* modify_number_of_entries_in_index, lines 416-417: the count is read
step_modify_read(f, frame) ==
    IF ~read_int_from_handle(f, INDEX_NUMBER_OF_ENTRIES_OFFSET).ok
    THEN [file |-> f, frame |-> [frame EXCEPT !.pc = "raised"]]
    ELSE [file |-> f,
          frame |-> [frame EXCEPT !.pc = "modify_write",
                        !.number_of_entries =
                            read_int_from_handle(f, INDEX_NUMBER_OF_ENTRIES_OFFSET).val]]

\* modify_number_of_entries_in_index, lines 418-419: the modified count is written
step_modify_write(f, frame) ==
    [file |-> write_at(f, INDEX_NUMBER_OF_ENTRIES_OFFSET,
                       pack_i(Modify(Increment, frame.number_of_entries))),
     frame |-> [frame EXCEPT !.pc = "read_buffer"]]

\* lines 460-464: everything from the position on is read into the buffer
step_read_buffer(f, frame) ==
    [file |-> f,
     frame |-> [frame EXCEPT !.pc = "write_entry",
                   !.buffer = read(f, frame.offset_in_file, Len(f))]]

\* line 467: the record of the entry is written at the position
step_write_entry(f, frame) ==
    [file |-> write_at(f, frame.offset_in_file, write_to(frame.entry)),
     frame |-> [frame EXCEPT !.pc = "write_buffer",
                   !.position = frame.offset_in_file + Len(write_to(frame.entry))]]

\* the buffer written where the record was written
step_write_buffer_at_offset(f, frame) ==
    [file |-> write_at(f, frame.offset_in_file, frame.buffer),
     frame |-> [frame EXCEPT !.pc = "update_version"]]

\* line 470: the buffer is written where the handle stands, after the record
step_write_buffer(f, frame) ==
    [file |-> write_at(f, frame.position, frame.buffer),
     frame |-> [frame EXCEPT !.pc = "update_version"]]

\* lines 473-474, and the handle is closed
step_update_version(f, frame) ==
    [file |-> update_index_version(f), frame |-> [frame EXCEPT !.pc = "done"]]

\* the frames after a step of caller c that leaves it the frame: the calls that are in
\* progress at the same time are marked
Advance(c, frame) ==
    [d \in Callers |->
        IF d = c
        THEN [frame EXCEPT !.overlapped = @ \/ \E o \in Callers \ {c} : Active(callers[o])]
        ELSE IF Active(callers[d]) THEN [callers[d] EXCEPT !.overlapped = TRUE]
        ELSE callers[d]]

InitSteps ==
    /\ present = TRUE
    /\ file \in StepFiles
    /\ last = NoCall
    /\ manager = NoManager
    /\ callers = [c \in Callers |-> IdleFrame]

\* line 431: the caller opens the file
CallWriteEntry ==
    \E c \in Callers, e \in StepEntries :
        /\ callers[c].pc = "idle"
        /\ callers' = Advance(c, [IdleFrame EXCEPT !.pc = "lookup", !.entry = e,
                                     !.pre = file])
        /\ UNCHANGED <<present, file, last, manager>>

LookupPosition ==
    \E c \in Callers :
        /\ callers[c].pc = "lookup"
        /\ \E r \in {step_lookup(file, callers[c])} :
               file' = r.file /\ callers' = Advance(c, r.frame)
        /\ UNCHANGED <<present, last, manager>>

ReadCount ==
    \E c \in Callers :
        /\ callers[c].pc = "modify_read"
        /\ \E r \in {step_modify_read(file, callers[c])} :
               file' = r.file /\ callers' = Advance(c, r.frame)
        /\ UNCHANGED <<present, last, manager>>

WriteCount ==
    \E c \in Callers :
        /\ callers[c].pc = "modify_write"
        /\ \E r \in {step_modify_write(file, callers[c])} :
               file' = r.file /\ callers' = Advance(c, r.frame)
        /\ UNCHANGED <<present, last, manager>>

ReadBuffer ==
    \E c \in Callers :
        /\ callers[c].pc = "read_buffer"
        /\ \E r \in {step_read_buffer(file, callers[c])} :
               file' = r.file /\ callers' = Advance(c, r.frame)
        /\ UNCHANGED <<present, last, manager>>

WriteRecord ==
    \E c \in Callers :
        /\ callers[c].pc = "write_entry"
        /\ \E r \in {step_write_entry(file, callers[c])} :
               file' = r.file /\ callers' = Advance(c, r.frame)
        /\ UNCHANGED <<present, last, manager>>

WriteBuffer ==
    \E c \in Callers :
        /\ callers[c].pc = "write_buffer"
        /\ \E r \in {step_write_buffer(file, callers[c])} :
               file' = r.file /\ callers' = Advance(c, r.frame)
        /\ UNCHANGED <<present, last, manager>>

UpdateVersion ==
    \E c \in Callers :
        /\ callers[c].pc = "update_version"
        /\ \E r \in {step_update_version(file, callers[c])} :
               file' = r.file /\ callers' = Advance(c, r.frame)
        /\ UNCHANGED <<present, last, manager>>

NextSteps ==
    \/ CallWriteEntry
    \/ LookupPosition
    \/ ReadCount
    \/ WriteCount
    \/ ReadBuffer
    \/ WriteRecord
    \/ WriteBuffer
    \/ UpdateVersion

SpecSteps == InitSteps /\ [][NextSteps]_vars

\* the records that can be read from the body one after the other, in the generation
\* the header declares, whatever count the header declares
CompleteRecords(f) ==
    walk_loop(f, INDEX_ENTRIES_START_OFFSET, DeclaredVersion(f), Len(f), 0, << >>,
              PredAll).entries

\* a single call is in progress and no other call has run at the same time
AloneInProgress(c) == Active(callers[c]) /\ ~callers[c].overlapped

(***************************************************************************)
(* C21: at every intermediate point of one write_entry_to_index the header *)
(* entry_count is less than or equal to the number of complete records in  *)
(* the body: the count is never overstated.                                *)
(***************************************************************************)
C21_CountNeverOverstated ==
    \A c \in Callers :
        AloneInProgress(c) => DeclaredCount(file) <= Len(CompleteRecords(file))

\* what holds instead: until the count is written the file is the one of before the
\* call, and from then on the header declares one more than before the call
C21_CountWrittenFirst ==
    \A c \in Callers :
        AloneInProgress(c)
        => IF callers[c].pc \in {"lookup", "modify_read", "modify_write"}
           THEN file = callers[c].pre
           ELSE DeclaredCount(file) = DeclaredCount(callers[c].pre) + 1

\* the file pre with one more declared entry, the current version and the record of
\* the entry e between its bytes before and from offset
Inserted(pre, offset, e) ==
    Header(INDEX_MAGIC_PREFIX, INDEX_VERSION, DeclaredCount(pre) + 1)
        \o SubSeq(pre, INDEX_ENTRIES_START_OFFSET + 1, offset)
        \o write_to(e)
        \o SubSeq(pre, offset + 1, Len(pre))

\* the entry is among the records of the file
Holds(f, e) ==
    \E i \in 1..Len(CompleteRecords(f)) :
        Identities(CompleteRecords(f))[i] = <<e.time, e.checksum, e.path>>

\* caller c returns from a call during which no other call was in progress
ReturnsAlone(c) ==
    /\ Active(callers[c])
    /\ ~Active(callers'[c])
    /\ ~callers'[c].overlapped

(***************************************************************************)
(* C24: a write_entry_to_index that runs to completion without another     *)
(* call in progress on the same file loses and overwrites nothing: the     *)
(* file is the one of before the call with the new record between the      *)
(* bytes before and after its position and one more declared entry (or     *)
(* is unchanged, for an entry already registered and for a call that       *)
(* raises), and on a file of the current version the count is the number   *)
(* of records and the walk yields the entry.  Calls whose steps interleave *)
(* can lose an entry or leave a count that differs from the number of      *)
(* records (C24_Witness).                                                  *)
(***************************************************************************)
C24_SequentialCallsKeepRecords ==
    [][\A c \in Callers :
          ReturnsAlone(c)
          => /\ callers'[c].pc \in {"registered", "raised"} => file' = callers[c].pre
             /\ callers'[c].pc = "done"
                => /\ file' = Inserted(callers[c].pre, callers[c].offset_in_file,
                                       callers[c].entry)
                   /\ (DeclaredVersion(callers[c].pre) = FastSloth
                          /\ WellFormed(callers[c].pre))
                      => /\ WellFormed(file')
                         /\ DeclaredCount(file') = Len(CompleteRecords(file'))
                         /\ Holds(file', callers[c].entry)]_vars

\* two calls on a file of the current version whose steps interleaved have both
\* returned, and an inserted entry is not among the records or the count is not
\* the number of records
C24_Witness ==
    /\ \A c \in Callers : callers[c].pc = "done" /\ callers[c].overlapped
    /\ \A c \in Callers : DeclaredVersion(callers[c].pre) = FastSloth
    /\ \/ \E c \in Callers : ~Holds(file, callers[c].entry)
       \/ DeclaredCount(file) # Len(CompleteRecords(file))

====
